---- MODULE Spec2Model ----
(***************************************************************************)
(* A model of the libgreat LPC43xx SGPIO driver: the slice/pin planner     *)
(* (sgpio.c), the data-shuttle and ISR generator (sgpio_data.c) and the    *)
(* NVIC operations they use (arm_vectors.c), together with the SGPIO       *)
(* hardware the driver programs.                                           *)
(*                                                                         *)
(* Bit masks (slices_in_use, shift_clock_enable, ...) are sets of bit      *)
(* numbers.  Slice and pin numbers are uint8_t values; a slice number      *)
(* above 15 names no slice register.                                       *)
(***************************************************************************)
EXTENDS Integers, Sequences, FiniteSets, TLC

VARIABLES
    sgpio,      \* the sgpio_t context; sgpio.reg is the register bank it points to
    nvic,       \* the SGPIO line of the NVIC: enabled and pending bits
    isr,        \* the ISR template and the SGPIO entry of the vector table
    pc,         \* the foreground thread's position
    ret,        \* the last call begun and the last result of sgpio_set_up_functions
    clk,        \* the clock generation and control units and the clock driver's data
    ring,         \* a ringbuffer_t and the calls made on it since ringbuffer_init
    rst         \* the reset driver: the persistent cell, its copy and the watchdog

vars == <<sgpio, nvic, isr, pc, ret, clk, ring, rst>>

----------------------------------------------------------------------------
(* Program constants.                                                      *)

SGPIO_NUM_PINS == 16
SGPIO_NUM_SLICES == 16
SGPIO_BITS_PER_SLICE == 32
SGPIO_MAXIMUM_SLICE_CHAIN_DEPTH == 8

SGPIO_OUTPUT_MODE_1BIT == 0
SGPIO_OUTPUT_MODE_2BIT_A == 1
SGPIO_OUTPUT_MODE_GPIO == 4
SGPIO_OUTPUT_MODE_4BIT_A == 5
SGPIO_OUTPUT_MODE_CLOCK_OUT == 8
SGPIO_OUTPUT_MODE_8BIT_A == 9

SGPIO_USE_PIN_DIRECTION_REGISTER == 0
SGPIO_DIRECTION_MODE_1BIT == 4
SGPIO_DIRECTION_MODE_2BIT == 5
SGPIO_DIRECTION_MODE_4BIT == 6
SGPIO_DIRECTION_MODE_8BIT == 7

SGPIO_FUNCTION_OVERRIDE_NEVER_USE_ISR == 1

SGPIO_PARALLEL_MODE_SERIAL == 0
SGPIO_PARALLEL_MODE_2BIT == 1
SGPIO_PARALLEL_MODE_4BIT == 2
SGPIO_PARALLEL_MODE_8BIT == 3

SGPIO_CLOCK_SOURCE_TYPE_PIN == 16
SGPIO_CLOCK_SOURCE_TYPE_LOCAL == 32
SGPIO_QUALIFIER_TYPE_PIN == 48

Modes == {"STREAM_DATA_IN", "STREAM_DATA_OUT", "FIXED_DATA_OUT",
          "STREAM_BIDIRECTIONAL", "CLOCK_GENERATION"}

Slices == 0 .. (SGPIO_NUM_SLICES - 1)
Pins == 0 .. (SGPIO_NUM_PINS - 1)

\* Values of the uint8_t and 8-bit register fields the driver computes in.
U8(x) == x % 256

\* 1 << n as a mask: a shift count that names no bit of the word sets none.
Bit(n) == IF n \in Slices THEN {n} ELSE {}

Pow2(n) == 2 ^ n

\* The element of a set of one element.  Only({e(x) : x \in {v}}) is e(v),
\* with v evaluated once.
Only(S) == CHOOSE x \in S : TRUE

----------------------------------------------------------------------------
(* Lookup tables of sgpio.c.                                               *)

\* scu_mappings: <<sgpio pin, SCU group, SCU pin, function number>>.
scu_mappings == {
    <<0, 0, 0, 3>>,   <<1, 0, 1, 3>>,   <<7, 1, 0, 6>>,   <<8, 1, 1, 3>>,
    <<9, 1, 2, 3>>,   <<10, 1, 3, 2>>,  <<11, 1, 4, 2>>,  <<15, 1, 5, 6>>,
    <<14, 1, 6, 6>>,  <<8, 1, 12, 6>>,  <<9, 1, 13, 6>>,  <<10, 1, 14, 6>>,
    <<2, 1, 15, 2>>,  <<3, 1, 16, 2>>,  <<11, 1, 17, 6>>, <<12, 1, 18, 6>>,
    <<13, 1, 20, 6>>, <<4, 2, 0, 1>>,   <<5, 2, 1, 0>>,   <<6, 2, 2, 0>>,
    <<12, 2, 3, 0>>,  <<13, 2, 4, 0>>,  <<14, 2, 5, 0>>,  <<7, 2, 6, 0>>,
    <<15, 2, 8, 0>>,  <<8, 4, 2, 7>>,   <<9, 4, 3, 7>>,   <<10, 4, 4, 7>>,
    <<11, 4, 5, 7>>,  <<12, 4, 6, 7>>,  <<13, 4, 8, 7>>,  <<14, 4, 9, 7>>,
    <<15, 4, 10, 7>>, <<4, 6, 3, 2>>,   <<5, 6, 6, 2>>,   <<6, 6, 7, 2>>,
    <<7, 6, 8, 2>>,   <<4, 7, 0, 7>>,   <<5, 7, 1, 7>>,   <<6, 7, 2, 7>>,
    <<7, 7, 7, 7>>,   <<3, 9, 5, 6>>,   <<8, 9, 6, 6>> }

\* TRUE iff the table maps the SGPIO pin to the LPC pin (a result other
\* than 0xFF).
sgpio_get_scu_function_for_pin_config(config) ==
    \E m \in scu_mappings :
        /\ m[1] = config.sgpio_pin
        /\ m[2] = config.scu_group
        /\ m[3] = config.scu_pin

\* A, I, E, J, C, K, F, L, B, M, G, N, D, O, H, P
input_slice_mappings == <<0, 8, 4, 9, 2, 10, 5, 11, 1, 12, 6, 13, 3, 14, 7, 15>>

\* -EINVAL as the uint8_t its callers store it in.
NoSlice == 234

sgpio_slice_for_io(pin) ==
    IF pin >= SGPIO_NUM_PINS THEN NoSlice ELSE input_slice_mappings[pin + 1]

sgpio_io_pin_for_slice(slice) ==
    IF \E i \in Pins : sgpio_slice_for_io(i) = slice
    THEN CHOOSE i \in Pins : sgpio_slice_for_io(i) = slice
    ELSE NoSlice

\* B, D, E, H, C, F, O, P, A, M, G, N, I, J, K, L
clockgen_slice_mappings == <<1, 3, 4, 7, 2, 5, 14, 15, 0, 12, 6, 13, 8, 9, 10, 11>>

\* A clock generator placed by the pin-to-I/O-slice table.
SliceForClockgenFromIoTable(pin) == sgpio_slice_for_io(pin)

sgpio_slice_for_clockgen(pin) == clockgen_slice_mappings[pin + 1]

\* H, D, G, O, P, B, N, M
direction_slice_mappings_2bit == <<7, 3, 6, 14, 15, 1, 13, 12>>
\* H, O, P, N
direction_slice_mappings_4bit == <<7, 14, 15, 13>>
direction_slice_mappings_8bit == <<7, 14, 15, 13>>

\* The result as stored in the uint8_t direction_slice (-1 is 0xFF).
sgpio_slice_for_direction(pin, bus_width) ==
    CASE bus_width = 8 -> direction_slice_mappings_8bit[(pin \div 8) + 1]
      [] bus_width = 4 -> direction_slice_mappings_4bit[(pin \div 8) + 1]
      [] bus_width = 2 -> direction_slice_mappings_2bit[(pin \div 2) + 1]
      [] bus_width = 1 -> sgpio_slice_for_io(pin + (SGPIO_NUM_SLICES \div 2))
      [] OTHER -> 255

sgpio_slice_in_concatenation(io_slice, depth) ==
    sgpio_slice_for_io(U8(sgpio_io_pin_for_slice(io_slice) + depth))

----------------------------------------------------------------------------
(* The register bank and the records of sgpio.h.                           *)

\* r with the fields of upd replaced.
Merge(r, upd) == [k \in DOMAIN r |-> IF k \in DOMAIN upd THEN upd[k] ELSE r[k]]

\* arr[slice] := val; a slice number that names no register writes none of them.
Wr(arr, slice, val) == IF slice \in DOMAIN arr THEN [arr EXCEPT ![slice] = val] ELSE arr

\* arr[slice] with some fields replaced.
WrFields(arr, slice, upd) ==
    IF slice \in DOMAIN arr THEN [arr EXCEPT ![slice] = Merge(@, upd)] ELSE arr

\* arr[slice]; a slice number that names no register reads as the reset value.
Rd(arr, slice) == IF slice \in DOMAIN arr THEN arr[slice] ELSE arr[0]

\* The SGPIO registers after a peripheral reset.
platform_sgpio_registers_t ==
    [ output_configuration |->
          [p \in Pins |-> [output_bus_mode |-> 0, pin_direction_source |-> 0]],
      shift_configuration |->
          [s \in Slices |-> [use_external_clock |-> FALSE, clock_source_pin |-> 0,
                             clock_source_slice |-> 0, shift_qualifier_mode |-> 0,
                             shift_qualifier_pin |-> 0, shift_qualifier_slice |-> 0,
                             enable_concatenation |-> FALSE, concatenation_order |-> 0]],
      feature_control |->
          [s \in Slices |-> [shift_on_falling_edge |-> 0, use_nonlocal_clock |-> FALSE,
                             parallel_mode |-> 0, invert_shift_qualifier |-> FALSE]],
      data |-> [s \in Slices |-> <<>>],
      data_shadow |-> [s \in Slices |-> <<>>],
      sgpio_cycles_per_shift_clock |-> [s \in Slices |-> 0],
      cycle_count |-> [s \in Slices |-> 0],
      data_buffer_swap_control |->
          [s \in Slices |-> [shifts_remaining |-> 0, shifts_per_buffer_swap |-> 0]],
      sgpio_pin_direction |-> {},
      shift_clock_enable |-> {},
      stop_on_next_buffer_swap |-> {},
      exchange_clock_interrupt |-> [enable |-> {}, status |-> {}] ]

\* A sgpio_pin_configuration_t.
PinConfig(sgpio_pin, scu_group, scu_pin) ==
    [sgpio_pin |-> sgpio_pin, scu_group |-> scu_group, scu_pin |-> scu_pin]

\* A sgpio_function_t as the caller builds it: the derived fields are zero.
\* A pointer field holds <<>> for NULL and <<x>> for a pointer to x.
sgpio_function_t(enabled, mode, bus_width, pin_configurations, frequency, buffer_order, shift_count_limit, shift_clock_output, overrides) ==
    [ enabled |-> enabled, mode |-> mode,
      pin_configurations |-> pin_configurations,
      bus_width |-> bus_width,
      shift_clock_source |-> SGPIO_CLOCK_SOURCE_TYPE_LOCAL,
      shift_clock_edge |-> 0,
      shift_clock_input |-> <<>>,
      shift_clock_frequency |-> frequency,
      shift_clock_qualifier |-> 0,
      shift_clock_qualifier_is_active_low |-> FALSE,
      shift_clock_qualifier_input |-> <<>>,
      shift_clock_output |-> shift_clock_output,
      buffer_order |-> buffer_order,
      direction_buffer_order |-> buffer_order,
      position_in_buffer |-> 0,
      position_in_direction_buffer |-> 0,
      shift_count_limit |-> shift_count_limit,
      data_in_buffer |-> 0,
      overrides |-> overrides,
      io_slice |-> 0, buffer_depth_order |-> 0,
      direction_slice |-> 0, direction_buffer_depth_order |-> 0 ]

\* A sgpio_t over the given functions, as the caller builds it.
sgpio_t(functions) ==
    [ running |-> FALSE, functions |-> functions,
      slices_in_use |-> {}, pins_in_use |-> {}, swap_irqs_required |-> {},
      scu |-> {},
      reg |-> platform_sgpio_registers_t ]

\* The result of a driver function: the context it leaves and its return code.
Res(s, rc) == [s |-> s, rc |-> rc]

----------------------------------------------------------------------------
(* Initial placement: sgpio_set_up_function and what it calls.             *)

\* The frequency of the SGPIO branch clock, in the unit of the functions'
\* shift_clock_frequency.
SgpioBranchClock == 5

\* x & 0xF0 for a byte x.
HighNibble(x) == x - (x % 16)

sgpio_set_up_pin(s, pin_config) ==
    IF ~sgpio_get_scu_function_for_pin_config(pin_config)
    THEN Res(s, "EINVAL")
    ELSE Res([s EXCEPT !.scu = @ \cup {<<pin_config.scu_group, pin_config.scu_pin>>},
                       !.pins_in_use = @ \cup Bit(pin_config.sgpio_pin)], "OK")

sgpio_set_up_clocking(s, i, slice) ==
    LET f == s.functions[i]
        clock_source_type == HighNibble(f.shift_clock_source)
        clock_source == f.shift_clock_source % 16
        s1 == [s EXCEPT
                 !.reg.shift_configuration = WrFields(@, slice,
                     [use_external_clock |-> (clock_source_type = SGPIO_CLOCK_SOURCE_TYPE_PIN),
                      clock_source_slice |-> clock_source % 4,
                      clock_source_pin |-> clock_source % 4]),
                 !.reg.feature_control = WrFields(@, slice,
                     [use_nonlocal_clock |-> (clock_source_type # SGPIO_CLOCK_SOURCE_TYPE_LOCAL),
                      shift_on_falling_edge |-> f.shift_clock_edge])]
        clock_divider == IF f.shift_clock_frequency = 0 THEN 1
                         ELSE SgpioBranchClock \div f.shift_clock_frequency
    IN  IF clock_source_type = SGPIO_CLOCK_SOURCE_TYPE_LOCAL
        THEN IF clock_divider = 0
             THEN Res(s1, "EINVAL")
             ELSE Res([s1 EXCEPT
                         !.reg.sgpio_cycles_per_shift_clock = Wr(@, slice, clock_divider - 1),
                         !.reg.cycle_count = Wr(@, slice, clock_divider - 1),
                         !.functions[i].shift_clock_frequency =
                              SgpioBranchClock \div clock_divider], "OK")
        ELSE IF clock_source_type = SGPIO_CLOCK_SOURCE_TYPE_PIN
        THEN IF f.shift_clock_input = <<>>
             THEN Res(s1, "EINVAL")
             ELSE Res(sgpio_set_up_pin(s1, f.shift_clock_input[1]).s, "OK")
        ELSE Res(s1, "OK")

sgpio_set_up_shift_condition(s, i, slice) ==
    LET f == s.functions[i]
        qualifier_type == HighNibble(f.shift_clock_qualifier)
        qualifier_source == f.shift_clock_qualifier
        s1 == [s EXCEPT
                 !.reg.shift_configuration = WrFields(@, slice,
                     [shift_qualifier_mode |-> (qualifier_type \div 16) % 4,
                      shift_qualifier_pin |-> qualifier_source % 4,
                      shift_qualifier_slice |-> qualifier_source % 4]),
                 !.reg.feature_control = WrFields(@, slice,
                     [invert_shift_qualifier |-> f.shift_clock_qualifier_is_active_low])]
    IN  IF qualifier_type = SGPIO_QUALIFIER_TYPE_PIN
        THEN IF f.shift_clock_qualifier_input = <<>>
             THEN Res(s1, "EINVAL")
             ELSE Res(sgpio_set_up_pin(s1, f.shift_clock_qualifier_input[1]).s, "OK")
        ELSE Res(s1, "OK")

sgpio_set_up_double_buffering(s, slice, total_concatenated_slices, bus_width) ==
    LET shifts_per_swap ==
            U8((SGPIO_BITS_PER_SLICE * total_concatenated_slices) \div bus_width)
    IN  [s EXCEPT
           !.reg.data_buffer_swap_control = Wr(@, slice,
               [shifts_per_buffer_swap |-> U8(shifts_per_swap - 1),
                shifts_remaining |-> U8(shifts_per_swap - 1)]),
           !.reg.stop_on_next_buffer_swap = @ \ Bit(slice)]

sgpio_copy_slice_properties(s, to_slice, from_slice) ==
    LET r == s.reg
    IN  [s EXCEPT
           !.reg.shift_configuration = Wr(@, to_slice, Rd(r.shift_configuration, from_slice)),
           !.reg.feature_control = Wr(@, to_slice, Rd(r.feature_control, from_slice)),
           !.reg.sgpio_cycles_per_shift_clock =
               Wr(@, to_slice, Rd(r.sgpio_cycles_per_shift_clock, from_slice)),
           !.reg.cycle_count = Wr(@, to_slice, Rd(r.cycle_count, from_slice)),
           !.reg.data_buffer_swap_control =
               Wr(@, to_slice, Rd(r.data_buffer_swap_control, from_slice)),
           !.reg.stop_on_next_buffer_swap =
               IF Bit(from_slice) \cap r.stop_on_next_buffer_swap # {}
               THEN @ \cup Bit(to_slice) ELSE @ \ Bit(to_slice)]

\* The bus width the switch settles on, 0 when it has no case for it.
PromotedBusWidth(bus_width) ==
    CASE bus_width \in {1, 2, 4, 8} -> bus_width
      [] bus_width = 3 -> 4
      [] bus_width \in {5, 6, 7} -> 8
      [] OTHER -> 0

ParallelModeFor(bus_width) ==
    CASE bus_width = 1 -> SGPIO_PARALLEL_MODE_SERIAL
      [] bus_width = 2 -> SGPIO_PARALLEL_MODE_2BIT
      [] bus_width = 4 -> SGPIO_PARALLEL_MODE_4BIT
      [] OTHER -> SGPIO_PARALLEL_MODE_8BIT

sgpio_set_up_bus_topology(s, i) ==
    LET f == s.functions[i]
        io_slice == f.io_slice
        width == PromotedBusWidth(f.bus_width)
        s1 == [s EXCEPT
                 !.reg.feature_control =
                     WrFields(@, io_slice, [parallel_mode |-> ParallelModeFor(width)]),
                 !.reg.shift_configuration =
                     WrFields(@, io_slice, [enable_concatenation |-> FALSE]),
                 !.functions[i].bus_width = width,
                 !.functions[i].buffer_depth_order = 0]
        s2 == sgpio_set_up_double_buffering(s1, io_slice, 1, width)
        s3 == sgpio_copy_slice_properties(s2, f.direction_slice, io_slice)
        s4 == [s3 EXCEPT
                 !.reg.feature_control =
                     IF width # 1
                     THEN WrFields(@, f.direction_slice,
                                   [parallel_mode |-> SGPIO_PARALLEL_MODE_2BIT])
                     ELSE @,
                 !.reg.shift_configuration =
                     WrFields(@, f.direction_slice,
                              [enable_concatenation |-> TRUE, concatenation_order |-> 0]),
                 !.functions[i].direction_buffer_depth_order = 0]
    IN  IF width = 0 THEN Res(s, "EINVAL")
        ELSE IF f.mode = "STREAM_BIDIRECTIONAL" THEN Res(s4, "OK")
        ELSE Res(s2, "OK")

\* The loop over the function's pins, from the k-th on.
RECURSIVE SetUpFunctionPins(_, _, _)
SetUpFunctionPins(s, i, k) ==
    IF k > s.functions[i].bus_width THEN Res(s, "OK")
    ELSE LET r == sgpio_set_up_pin(s, s.functions[i].pin_configurations[k])
         IN  IF r.rc # "OK" THEN r ELSE SetUpFunctionPins(r.s, i, k + 1)

\* The part of sgpio_set_up_function after the mode switch.
SetUpFunctionSlice(s, i) ==
    LET io_slice == s.functions[i].io_slice
        c == sgpio_set_up_clocking(s, i, io_slice)
        q == sgpio_set_up_shift_condition(c.s, i, io_slice)
        t == sgpio_set_up_bus_topology(q.s, i)
    IN  IF c.rc # "OK" THEN c
        ELSE IF q.rc # "OK" THEN q
        ELSE IF t.rc # "OK" THEN t
        ELSE Res([t.s EXCEPT !.slices_in_use = @ \cup Bit(io_slice)], "OK")

sgpio_set_up_function(s, i) ==
    LET f == s.functions[i]
        first_pin_number == f.pin_configurations[1].sgpio_pin
        p == SetUpFunctionPins(s, i, 1)
        direction_slice == sgpio_slice_for_direction(first_pin_number, f.bus_width)
        d == [p.s EXCEPT !.functions[i].direction_slice = direction_slice]
    IN  IF ~f.enabled THEN Res(s, "OK")
        ELSE IF p.rc # "OK" THEN p
        ELSE CASE f.mode = "STREAM_BIDIRECTIONAL" ->
                    IF direction_slice = 255 THEN Res(d, p.rc)
                    ELSE IF Bit(direction_slice) \cap d.slices_in_use # {}
                    THEN Res(d, "EBUSY")
                    ELSE SetUpFunctionSlice(
                             [d EXCEPT !.slices_in_use = @ \cup Bit(direction_slice),
                                       !.functions[i].io_slice =
                                            sgpio_slice_for_io(first_pin_number)], i)
               [] f.mode \in {"STREAM_DATA_IN", "STREAM_DATA_OUT", "FIXED_DATA_OUT"} ->
                    SetUpFunctionSlice(
                        [p.s EXCEPT !.functions[i].io_slice =
                                         sgpio_slice_for_io(first_pin_number)], i)
               [] f.mode = "CLOCK_GENERATION" ->
                    SetUpFunctionSlice(
                        [p.s EXCEPT !.functions[i].io_slice =
                                         sgpio_slice_for_clockgen(first_pin_number)], i)
               [] OTHER -> Res(p.s, "-ENOSYS")

----------------------------------------------------------------------------
(* Iterative buffer optimization.                                          *)

\* The result of an attempt: the context it leaves and whether it succeeded.
Att(s, ok) == [s |-> s, ok |-> ok]

sgpio_slices_for_buffer_free(s, io_slice, first_new_slice_depth, buffer_depth_slices) ==
    \A i \in first_new_slice_depth .. (buffer_depth_slices - 1) :
        Bit(sgpio_slice_in_concatenation(io_slice, i)) \cap s.slices_in_use = {}

\* A limit that takes the whole user buffer for a fixed pattern too.
LimitWithoutPatternHalving(f, maximum_depth) ==
    LET buffer_size_slices == Pow2(f.buffer_order) \div 4
    IN  IF Pow2(f.buffer_order) < 4 THEN 1
        ELSE IF buffer_size_slices > maximum_depth THEN maximum_depth
        ELSE buffer_size_slices

sgpio_limit_buffer_depth_to_user_limits(f, maximum_depth) ==
    LET buffer_size_bytes == Pow2(f.buffer_order)
        buffer_size_slices == buffer_size_bytes \div 4
        halved == IF /\ f.mode = "FIXED_DATA_OUT"
                     /\ buffer_size_slices > 1
                     /\ f.shift_count_limit = 0
                  THEN buffer_size_slices \div 2 ELSE buffer_size_slices
    IN  IF buffer_size_bytes < 4 THEN 1
        ELSE IF halved > maximum_depth THEN maximum_depth ELSE halved

\* A maximum depth that does not halve for a high I/O slice.
MaximumDepthIgnoringHighHalf(f) ==
    IF f.mode = "CLOCK_GENERATION" THEN 1
    ELSE sgpio_limit_buffer_depth_to_user_limits(f, SGPIO_MAXIMUM_SLICE_CHAIN_DEPTH)

sgpio_maximum_useful_buffer_depth_for_function(f) ==
    CASE f.mode = "CLOCK_GENERATION" -> 1
      [] f.mode \in {"STREAM_DATA_IN", "STREAM_DATA_OUT", "FIXED_DATA_OUT"} ->
            sgpio_limit_buffer_depth_to_user_limits(f, SGPIO_MAXIMUM_SLICE_CHAIN_DEPTH)
      [] f.mode = "STREAM_BIDIRECTIONAL" ->
            sgpio_limit_buffer_depth_to_user_limits(f,
                IF f.io_slice >= SGPIO_NUM_SLICES \div 2
                THEN SGPIO_MAXIMUM_SLICE_CHAIN_DEPTH \div 2
                ELSE SGPIO_MAXIMUM_SLICE_CHAIN_DEPTH)
      [] OTHER -> 0

\* The loop that configures the slices k .. depth-1 of the chain that starts
\* at first_slice.
RECURSIVE GrabChainSlices(_, _, _, _, _, _, _)
GrabChainSlices(s, first_slice, k, depth, order, mode_accepts_input, input_slice) ==
    IF k >= depth THEN s
    ELSE LET target_slice == sgpio_slice_in_concatenation(first_slice, k)
             s1 == IF target_slice # first_slice
                   THEN sgpio_copy_slice_properties(s, target_slice, first_slice)
                   ELSE s
             s2 == [s1 EXCEPT
                      !.reg.shift_configuration = WrFields(@, target_slice,
                          [enable_concatenation |->
                               (~mode_accepts_input) \/ (target_slice # input_slice),
                           concatenation_order |-> order % 4]),
                      !.slices_in_use = @ \cup Bit(target_slice)]
         IN  GrabChainSlices(s2, first_slice, k + 1, depth, order,
                             mode_accepts_input, input_slice)

sgpio_attempt_to_double_direction_buffer_size(s, i) ==
    LET f == s.functions[i]
        concat_order == f.direction_buffer_depth_order
        desired_concatenation_order == U8(concat_order + 1)
        buffer_depth_slices == U8(Pow2(concat_order))
        desired_buffer_depth == U8(Pow2(desired_concatenation_order))
        s1 == [s EXCEPT !.functions[i].buffer_depth_order = desired_concatenation_order]
        s2 == sgpio_set_up_double_buffering(s1, f.direction_slice,
                                            desired_buffer_depth, f.bus_width)
    IN  IF ~sgpio_slices_for_buffer_free(s, f.direction_slice,
                                         buffer_depth_slices, desired_buffer_depth)
        THEN Att(s, FALSE)
        ELSE Att(GrabChainSlices(s2, f.direction_slice, 0, desired_buffer_depth,
                                 desired_concatenation_order, FALSE, 255), TRUE)

sgpio_ensure_direction_specification_is_possible(s, i, desired_buffer_depth) ==
    LET f == s.functions[i]
        direction_buffer_depth == Pow2(f.direction_buffer_depth_order)
        direction_shift_width == IF f.bus_width = 1 THEN 1 ELSE 2
        shifts_in_new_buffer == (desired_buffer_depth * 32) \div f.bus_width
        shifts_in_current_direction_buffer ==
            (direction_buffer_depth * 32) \div direction_shift_width
    IN  IF f.mode # "STREAM_BIDIRECTIONAL" THEN Att(s, TRUE)
        ELSE IF shifts_in_current_direction_buffer >= shifts_in_new_buffer THEN Att(s, TRUE)
        ELSE sgpio_attempt_to_double_direction_buffer_size(s, i)

sgpio_attempt_to_double_buffer_size(s, i) ==
    LET f == s.functions[i]
        concat_order == f.buffer_depth_order
        desired_concatenation_order == U8(concat_order + 1)
        buffer_depth_slices == U8(Pow2(concat_order))
        desired_buffer_depth == U8(Pow2(desired_concatenation_order))
        mode_accepts_input == f.mode \in {"STREAM_DATA_IN", "STREAM_BIDIRECTIONAL"}
        e == sgpio_ensure_direction_specification_is_possible(s, i, desired_buffer_depth)
        s1 == [e.s EXCEPT !.functions[i].buffer_depth_order = desired_concatenation_order]
        s2 == sgpio_set_up_double_buffering(s1, f.io_slice, desired_buffer_depth, f.bus_width)
        input_slice == IF f.mode = "STREAM_BIDIRECTIONAL" THEN 255 ELSE f.io_slice
    IN  IF desired_buffer_depth > sgpio_maximum_useful_buffer_depth_for_function(f)
        THEN Att(s, FALSE)
        ELSE IF ~sgpio_slices_for_buffer_free(s, f.io_slice,
                                              buffer_depth_slices, desired_buffer_depth)
        THEN Att(s, FALSE)
        ELSE IF ~e.ok THEN Att(s, FALSE)
        ELSE Att(GrabChainSlices(s2, f.io_slice, 0, desired_buffer_depth,
                                 desired_concatenation_order,
                                 mode_accepts_input, input_slice), TRUE)

\* One pass over the functions, from the i-th on; ok is already_optimal.
RECURSIVE OptimizationPass(_, _, _)
OptimizationPass(s, i, already_optimal) ==
    IF i > Len(s.functions) THEN Att(s, already_optimal)
    ELSE LET a == IF s.functions[i].mode = "CLOCK_GENERATION"
                  THEN Att(s, FALSE)
                  ELSE sgpio_attempt_to_double_buffer_size(s, i)
         IN  OptimizationPass(a.s, i + 1, already_optimal /\ ~a.ok)

sgpio_attempt_buffer_optimization(s) == OptimizationPass(s, 1, TRUE)

\* A single optimization pass in place of the loop.
OptimizeBuffersInOnePass(s) == sgpio_attempt_buffer_optimization(s).s

\* The while loop of sgpio_set_up_functions around the optimization passes.
RECURSIVE OptimizeBuffers(_)
OptimizeBuffers(s) ==
    LET a == sgpio_attempt_buffer_optimization(s)
    IN  IF a.ok THEN a.s ELSE OptimizeBuffers(a.s)

----------------------------------------------------------------------------
(* Output pins and shift limits.                                           *)

sgpio_output_mode_for_output_buffer(bus_width) ==
    CASE bus_width = 1 -> SGPIO_OUTPUT_MODE_1BIT
      [] bus_width = 2 -> SGPIO_OUTPUT_MODE_2BIT_A
      [] bus_width \in {3, 4} -> SGPIO_OUTPUT_MODE_4BIT_A
      [] bus_width \in {5, 6, 7, 8} -> SGPIO_OUTPUT_MODE_8BIT_A
      [] OTHER -> SGPIO_OUTPUT_MODE_GPIO

sgpio_set_pin_to_clkout_mode(s, pin_config) ==
    LET clk_pin == pin_config.sgpio_pin
        r == sgpio_set_up_pin(s, pin_config)
    IN  Res([r.s EXCEPT
               !.reg.output_configuration = WrFields(@, clk_pin,
                   [pin_direction_source |-> SGPIO_USE_PIN_DIRECTION_REGISTER,
                    output_bus_mode |-> SGPIO_OUTPUT_MODE_CLOCK_OUT]),
               !.reg.sgpio_pin_direction = @ \cup Bit(clk_pin),
               !.pins_in_use = @ \cup Bit(clk_pin)], r.rc)

sgpio_set_up_shift_clock_output(s, i) ==
    LET f == s.functions[i]
        clk_pin == f.shift_clock_output[1].sgpio_pin
        clkgen_slice == sgpio_slice_for_clockgen(clk_pin)
        target_divisor == Rd(s.reg.sgpio_cycles_per_shift_clock, f.io_slice)
        slice_in_use == Bit(clkgen_slice) \cap s.slices_in_use # {}
        slice_frequency_matches ==
            Rd(s.reg.sgpio_cycles_per_shift_clock, clkgen_slice) = target_divisor
        copied == sgpio_copy_slice_properties(s, clkgen_slice, f.io_slice)
    IN  IF slice_in_use /\ slice_frequency_matches
        THEN Res(sgpio_set_pin_to_clkout_mode(s, f.shift_clock_output[1]).s, "OK")
        ELSE IF ~slice_in_use
        THEN Res(sgpio_set_pin_to_clkout_mode(
                     [copied EXCEPT !.slices_in_use = @ \cup Bit(clkgen_slice)],
                     f.shift_clock_output[1]).s, "OK")
        ELSE Res(s, "EBUSY")

\* The body of the loop over the function's pins, for the pin pin_number.
SetUpOutputPin(s, f, pin_number) ==
    CASE f.mode = "STREAM_DATA_IN" ->
            [s EXCEPT
               !.reg.output_configuration = WrFields(@, pin_number,
                   [pin_direction_source |-> SGPIO_USE_PIN_DIRECTION_REGISTER]),
               !.reg.sgpio_pin_direction = @ \ Bit(pin_number)]
      [] f.mode \in {"STREAM_DATA_OUT", "FIXED_DATA_OUT"} ->
            [s EXCEPT
               !.reg.output_configuration = WrFields(@, pin_number,
                   [output_bus_mode |-> sgpio_output_mode_for_output_buffer(f.bus_width),
                    pin_direction_source |-> SGPIO_USE_PIN_DIRECTION_REGISTER]),
               !.reg.sgpio_pin_direction = @ \cup Bit(pin_number)]
      [] f.mode = "CLOCK_GENERATION" ->
            [s EXCEPT
               !.reg.output_configuration = WrFields(@, pin_number,
                   [output_bus_mode |-> SGPIO_OUTPUT_MODE_CLOCK_OUT,
                    pin_direction_source |-> SGPIO_USE_PIN_DIRECTION_REGISTER]),
               !.reg.sgpio_pin_direction = @ \cup Bit(pin_number)]
      [] f.mode = "STREAM_BIDIRECTIONAL" ->
            [s EXCEPT
               !.reg.output_configuration = WrFields(@, pin_number,
                   [output_bus_mode |-> sgpio_output_mode_for_output_buffer(f.bus_width),
                    pin_direction_source |->
                        CASE f.bus_width = 8 -> SGPIO_DIRECTION_MODE_8BIT
                          [] f.bus_width = 4 -> SGPIO_DIRECTION_MODE_4BIT
                          [] f.bus_width = 2 -> SGPIO_DIRECTION_MODE_2BIT
                          [] f.bus_width = 1 -> SGPIO_DIRECTION_MODE_1BIT
                          [] OTHER -> Rd(s.reg.output_configuration,
                                         pin_number).pin_direction_source]),
               !.reg.data = Wr(@, f.direction_slice, <<>>)]
      [] OTHER -> s

RECURSIVE SetUpOutputPinsFrom(_, _, _)
SetUpOutputPinsFrom(s, i, k) ==
    IF k > s.functions[i].bus_width THEN s
    ELSE SetUpOutputPinsFrom(
             SetUpOutputPin(s, s.functions[i],
                            s.functions[i].pin_configurations[k].sgpio_pin), i, k + 1)

sgpio_set_up_output_pins_for_function(s, i) ==
    LET s1 == SetUpOutputPinsFrom(s, i, 1)
    IN  IF s.functions[i].shift_clock_output # <<>>
        THEN sgpio_set_up_shift_clock_output(s1, i)
        ELSE Res(s1, "OK")

RECURSIVE SetUpOutputPinsOfFunctionsFrom(_, _)
SetUpOutputPinsOfFunctionsFrom(s, i) ==
    IF i > Len(s.functions) THEN Res(s, "OK")
    ELSE LET r == sgpio_set_up_output_pins_for_function(s, i)
         IN  IF r.rc # "OK" THEN r ELSE SetUpOutputPinsOfFunctionsFrom(r.s, i + 1)

sgpio_set_up_output_pins(s) == SetUpOutputPinsOfFunctionsFrom(s, 1)

sgpio_apply_shift_limits(s, i, slice, total_concatenated_slices, bus_width) ==
    LET f == s.functions[i]
        shifts_per_swap ==
            U8((SGPIO_BITS_PER_SLICE * total_concatenated_slices) \div bus_width)
        shift_can_be_limited == f.shift_count_limit <= shifts_per_swap
    IN  IF f.shift_count_limit = 0 THEN Res(s, "OK")
        ELSE IF ~shift_can_be_limited THEN Res(s, "ENOMEM")
        ELSE Res([s EXCEPT
                    !.reg.data_buffer_swap_control = Wr(@, slice,
                        [shifts_per_buffer_swap |-> 0,
                         shifts_remaining |-> U8(f.shift_count_limit - 1)]),
                    !.reg.stop_on_next_buffer_swap = @ \cup Bit(slice)], "OK")

\* The loop over the slices slice_depth .. depth-1 of the chain that starts
\* at first_slice.
RECURSIVE ApplyShiftLimitsToChain(_, _, _, _, _, _)
ApplyShiftLimitsToChain(s, i, first_slice, slice_depth, depth, bus_width) ==
    IF slice_depth >= depth THEN Res(s, "OK")
    ELSE LET r == sgpio_apply_shift_limits(s, i,
                      sgpio_slice_in_concatenation(first_slice, slice_depth),
                      depth, bus_width)
         IN  IF r.rc # "OK" THEN r
             ELSE ApplyShiftLimitsToChain(r.s, i, first_slice, slice_depth + 1,
                                          depth, bus_width)

RECURSIVE EnforceShiftLimitsFrom(_, _)
EnforceShiftLimitsFrom(s, i) ==
    IF i > Len(s.functions) THEN Res(s, "OK")
    ELSE LET f == s.functions[i]
             buffer_depth == U8(Pow2(f.buffer_depth_order))
             direction_buffer_depth == U8(Pow2(f.direction_buffer_depth_order))
             direction_bus_width == IF f.bus_width = 1 THEN 1 ELSE 2
             a == ApplyShiftLimitsToChain(s, i, f.io_slice, 0, buffer_depth, f.bus_width)
             b == IF f.mode = "STREAM_BIDIRECTIONAL"
                  THEN ApplyShiftLimitsToChain(a.s, i, f.direction_slice, 0,
                                               direction_buffer_depth, direction_bus_width)
                  ELSE a
         IN  IF a.rc # "OK" THEN a
             ELSE IF b.rc # "OK" THEN b
             ELSE EnforceShiftLimitsFrom(b.s, i + 1)

sgpio_enforce_all_shift_limits(s) == EnforceShiftLimitsFrom(s, 1)

----------------------------------------------------------------------------
(* ISR generation (sgpio_data.c).                                          *)

\* The slice for a position of the chain; ~0 (no slice) for a mode without
\* a buffer layout.
sgpio_get_function_buffer_slice_index(f, position_in_buffer) ==
    LET buffer_depth_slices == Pow2(f.buffer_depth_order)
        rotated == IF f.buffer_depth_order # 0
                   THEN (position_in_buffer + 1) % buffer_depth_slices
                   ELSE position_in_buffer
    IN  CASE f.mode \in {"STREAM_DATA_OUT", "FIXED_DATA_OUT", "STREAM_BIDIRECTIONAL"} ->
                sgpio_slice_for_io(U8(sgpio_io_pin_for_slice(f.io_slice) + rotated))
          [] f.mode = "STREAM_DATA_IN" ->
                sgpio_slice_for_io(U8(sgpio_io_pin_for_slice(f.io_slice) + position_in_buffer))
          [] OTHER -> 255

sgpio_get_direction_buffer_slice_index(f, position_in_buffer) ==
    sgpio_slice_for_io(U8(sgpio_io_pin_for_slice(f.direction_slice) + position_in_buffer))

\* A 16-bit ldr/str with a 5-bit word offset.
LdrOrStr(op, rb, offset) == [op |-> op, rb |-> rb, offset |-> (offset \div 4) % 32]

\* The instructions for the chain positions slices_to_copy-1 down to 0.
RECURSIVE CopyInstructions(_, _, _)
CopyInstructions(f, slices_to_copy, user_buffer_offset) ==
    IF slices_to_copy = 0 THEN <<>>
    ELSE LET slice_buffer_offset ==
                 sgpio_get_function_buffer_slice_index(f, slices_to_copy - 1) * 4
             pair == IF f.mode = "STREAM_DATA_IN"
                     THEN << LdrOrStr("ldr", "REG_SHADOW_BASE", slice_buffer_offset),
                             LdrOrStr("str", "REG_USER_BUFFER_POINTER", user_buffer_offset) >>
                     ELSE << LdrOrStr("ldr", "REG_USER_BUFFER_POINTER", user_buffer_offset),
                             LdrOrStr("str", "REG_SHADOW_BASE", slice_buffer_offset) >>
         IN  pair \o CopyInstructions(f, slices_to_copy - 1, user_buffer_offset + 4)

generate_isr_copy_instructions(f) ==
    CopyInstructions(f, U8(Pow2(f.buffer_depth_order)), 0)

sgpio_data_buffer_fits_in_sgpio_slice_chain(f, with_exchange) ==
    LET slice_buffer_order_bytes == U8(f.buffer_depth_order + 2)
        slice_buffer_order_with_exchange == U8(slice_buffer_order_bytes + 1)
        slices_in_chain == Pow2(f.buffer_depth_order)
        shifts_per_slice == U8(32 \div f.bus_width)
        shifts_in_chain == U8(shifts_per_slice * slices_in_chain)
        shifts_total == IF with_exchange THEN U8(shifts_in_chain * 2) ELSE shifts_in_chain
    IN  IF f.shift_count_limit # 0 /\ f.shift_count_limit < shifts_total THEN TRUE
        ELSE IF f.mode # "FIXED_DATA_OUT" THEN TRUE
        ELSE IF with_exchange THEN f.buffer_order <= slice_buffer_order_with_exchange
        ELSE f.buffer_order <= slice_buffer_order_bytes

sgpio_isr_necessary_for_function(f) ==
    IF f.overrides % 2 = SGPIO_FUNCTION_OVERRIDE_NEVER_USE_ISR THEN FALSE
    ELSE CASE f.mode = "CLOCK_GENERATION" -> FALSE
           [] f.mode \in {"STREAM_BIDIRECTIONAL", "STREAM_DATA_OUT", "FIXED_DATA_OUT"} ->
                 ~sgpio_data_buffer_fits_in_sgpio_slice_chain(f, TRUE)
           [] f.mode = "STREAM_DATA_IN" ->
                 IF f.shift_count_limit # 0
                 THEN (f.shift_count_limit * f.bus_width) \div SGPIO_BITS_PER_SLICE
                          > Pow2(f.buffer_depth_order)
                 ELSE TRUE
           [] OTHER -> TRUE

\* The ISR template after the generator ran for the i-th function while the
\* SGPIO IRQ was enabled or not: the argument block and the body (the fill
\* of the unused instruction slots left out).
sgpio_generate_core_data_isr_for_function(tpl, s, i, irq_enabled) ==
    LET f == s.functions[i]
    IN  [tpl EXCEPT
           !.args = [interrupt_clear_mask |-> Slices,
                     position_in_buffer_var |-> i,
                     position_in_buffer_mask |-> Pow2(f.buffer_order) - 1,
                     copy_size |-> Pow2(f.buffer_depth_order) * 4],
           !.body = generate_isr_copy_instructions(f),
           !.body_written_irq_enabled = irq_enabled]

\* The number of 16-bit instruction slots of the template's body.
sgpio_get_maximum_generable_instructions == 64

\* The body as the generator leaves it in memory: the copy instructions and a
\* NOP in every slot after them.
NopFilledBody(body) ==
    [k \in 1 .. sgpio_get_maximum_generable_instructions |->
         IF k <= Len(body) THEN body[k] ELSE [op |-> "nop"]]

\* The loop over the functions, from the i-th on.  function_isrs holds the
\* numbers (from 0) of the entries written so far.
RECURSIVE GenerateFunctionIsrs(_, _, _, _, _)
GenerateFunctionIsrs(s, tpl, function_isrs, i, irq_enabled) ==
    IF i > Len(s.functions)
    THEN [s |-> s, tpl |-> tpl, function_isrs |-> function_isrs]
    ELSE IF sgpio_isr_necessary_for_function(s.functions[i])
    THEN LET s1 == [s EXCEPT !.swap_irqs_required = Bit(s.functions[i].io_slice)]
         IN  GenerateFunctionIsrs(
                 s1, sgpio_generate_core_data_isr_for_function(tpl, s1, i, irq_enabled),
                 function_isrs \cup {i - 1}, i + 1, irq_enabled)
    ELSE GenerateFunctionIsrs(s, tpl, function_isrs, i + 1, irq_enabled)

\* The handler sgpio_generate_master_isr returns: the entry of function_isrs
\* for the first function number that is a bit of swap_irqs_required;
\* uninitialized is what an entry never written reads as.
sgpio_generate_master_isr(s, function_isrs, uninitialized) ==
    LET hits == {i \in 0 .. (Len(s.functions) - 1) : i \in s.swap_irqs_required}
        first == CHOOSE i \in hits : \A j \in hits : i <= j
    IN  IF hits = {} THEN "NULL"
        ELSE IF first \in function_isrs THEN "sgpio_dynamic_isr"
        ELSE uninitialized

platform_set_interrupt_handler(tpl, handler, irq_enabled) ==
    [tpl EXCEPT !.handler = handler, !.installed_irq_enabled = irq_enabled]

sgpio_generate_data_shuttle_isr(s, tpl, irq_enabled, uninitialized) ==
    LET g == GenerateFunctionIsrs([s EXCEPT !.swap_irqs_required = {}], tpl, {}, 1,
                                  irq_enabled)
        master_isr == sgpio_generate_master_isr(g.s, g.function_isrs, uninitialized)
    IN  [ s |-> g.s,
          tpl |-> IF master_isr # "NULL"
                  THEN platform_set_interrupt_handler(g.tpl, master_isr, irq_enabled)
                  ELSE g.tpl,
          rc |-> "OK" ]

----------------------------------------------------------------------------
(* sgpio_set_up_functions.                                                 *)

RECURSIVE SetUpFunctionsFrom(_, _)
SetUpFunctionsFrom(s, i) ==
    IF i > Len(s.functions) THEN Res(s, "OK")
    ELSE LET r == sgpio_set_up_function(s, i)
         IN  IF r.rc # "OK" THEN r ELSE SetUpFunctionsFrom(r.s, i + 1)

\* The context after the reset and the defaults the function starts with.
ResetAndDefault(s) ==
    [s EXCEPT
       !.reg = [platform_sgpio_registers_t EXCEPT
                  !.output_configuration =
                      [p \in Pins |-> Merge(@[p],
                          [pin_direction_source |-> SGPIO_USE_PIN_DIRECTION_REGISTER])],
                  !.sgpio_pin_direction = {},
                  !.shift_clock_enable = {}],
       !.slices_in_use = {},
       !.pins_in_use = {}]

sgpio_set_up_functions(s, tpl, irq_enabled, uninitialized) ==
    Only({
      IF placed.rc # "OK" THEN [s |-> placed.s, tpl |-> tpl, rc |-> placed.rc]
      ELSE Only({
        IF pins.rc # "OK" THEN [s |-> pins.s, tpl |-> tpl, rc |-> pins.rc]
        ELSE Only({
          IF limits.rc # "OK" THEN [s |-> limits.s, tpl |-> tpl, rc |-> limits.rc]
          ELSE sgpio_generate_data_shuttle_isr(limits.s, tpl, irq_enabled, uninitialized)
          : limits \in {sgpio_enforce_all_shift_limits(pins.s)} })
        : pins \in {sgpio_set_up_output_pins(OptimizeBuffers(placed.s))} })
      : placed \in {SetUpFunctionsFrom(ResetAndDefault(s), 1)} })

----------------------------------------------------------------------------
(* Prepopulation and residual capture (sgpio_data.c), sgpio_running.       *)

\* A register holds <<>> after reset, <<i, p>> for the word at byte p of the
\* i-th function's buffer, and <<"direction", i, p, n>> for n bytes at byte p
\* of its direction buffer.

\* The loop of sgpio_prepopulate_function_buffer, current_word_index words
\* left; target is "data" or "data_shadow".
RECURSIVE PrepopulateWords(_, _, _, _)
PrepopulateWords(s, i, target, current_word_index) ==
    IF current_word_index = 0 THEN s
    ELSE LET f == s.functions[i]
             buffer_size_bytes == Pow2(f.buffer_order)
             position_in_buffer == f.position_in_buffer % buffer_size_bytes
             slice_buffer_offset ==
                 sgpio_get_function_buffer_slice_index(f, current_word_index - 1)
         IN  PrepopulateWords(
                 [s EXCEPT
                    !.reg[target] = Wr(@, slice_buffer_offset, <<i, position_in_buffer>>),
                    !.functions[i].position_in_buffer =
                        (f.position_in_buffer + 4) % buffer_size_bytes],
                 i, target, current_word_index - 1)

\* A prepopulation of the first word of the chain only.
PrepopulateFirstWordOnly(s, i, target) == PrepopulateWords(s, i, target, 1)

sgpio_prepopulate_function_buffer(s, i, target) ==
    PrepopulateWords(s, i, target, U8(Pow2(s.functions[i].buffer_depth_order)))

\* The loop of sgpio_prepopulate_direction_buffer, bytes_remaining bytes left.
RECURSIVE PrepopulateDirectionBytes(_, _, _, _)
PrepopulateDirectionBytes(s, i, target, bytes_remaining) ==
    IF bytes_remaining = 0 THEN s
    ELSE LET f == s.functions[i]
             direction_buffer_size_bytes == Pow2(f.direction_buffer_order)
             bytes_copied == IF bytes_remaining < 4 THEN bytes_remaining ELSE 4
             current_word_index == bytes_remaining \div 4
             position_in_buffer ==
                 f.position_in_direction_buffer % direction_buffer_size_bytes
             slice_buffer_offset ==
                 sgpio_get_direction_buffer_slice_index(f, current_word_index)
         IN  PrepopulateDirectionBytes(
                 [s EXCEPT
                    !.reg[target] = Wr(@, slice_buffer_offset,
                        <<"direction", i, position_in_buffer, bytes_copied>>),
                    !.functions[i].position_in_direction_buffer =
                        f.position_in_buffer % direction_buffer_size_bytes],
                 i, target, bytes_remaining - bytes_copied)

sgpio_prepopulate_direction_buffer(s, i, target) ==
    LET f == s.functions[i]
        shifts_per_swap ==
            Rd(s.reg.data_buffer_swap_control, f.io_slice).shifts_remaining + 1
        bits_per_shift == IF f.bus_width = 1 THEN 1 ELSE 2
        direction_bytes_per_swap == (shifts_per_swap * bits_per_shift) \div 8
    IN  PrepopulateDirectionBytes(s, i, target, U8(direction_bytes_per_swap))

RECURSIVE PrepopulateFrom(_, _)
PrepopulateFrom(s, i) ==
    IF i > Len(s.functions) THEN s
    ELSE LET mode == s.functions[i].mode
             d == IF mode = "STREAM_BIDIRECTIONAL"
                  THEN sgpio_prepopulate_direction_buffer(
                           sgpio_prepopulate_direction_buffer(s, i, "data"),
                           i, "data_shadow")
                  ELSE s
         IN  IF mode \in {"STREAM_BIDIRECTIONAL", "STREAM_DATA_OUT", "FIXED_DATA_OUT"}
             THEN PrepopulateFrom(
                      sgpio_prepopulate_function_buffer(
                          sgpio_prepopulate_function_buffer(d, i, "data"),
                          i, "data_shadow"),
                      i + 1)
             ELSE PrepopulateFrom(s, i + 1)

sgpio_handle_data_prepopulation(s) == PrepopulateFrom(s, 1)

\* TRUE iff the capture for the i-th function takes the branch of a function
\* halted by its shift limit.
HaltedByShiftLimit(s, i) ==
    LET io_slice == s.functions[i].io_slice
    IN  /\ Rd(s.reg.data_buffer_swap_control, io_slice).shifts_per_buffer_swap = 0
        /\ Rd(s.reg.cycle_count, io_slice) = 0

\* The number of bytes the capture copies for the i-th function.
BytesToProcess(s, i) ==
    IF HaltedByShiftLimit(s, i)
    THEN (s.functions[i].shift_count_limit * s.functions[i].bus_width) \div 8
    ELSE 0

\* position_in_buffer after n bytes were stored; data_buffer_size is the
\* uint8_t buffer size, and a remainder by 0 leaves its dividend (the
\* quotient of a division by 0 being 0).
RECURSIVE AdvancePosition(_, _, _)
AdvancePosition(position_in_buffer, n, data_buffer_size) ==
    IF n = 0 THEN position_in_buffer
    ELSE AdvancePosition(IF data_buffer_size = 0 THEN position_in_buffer + 1
                         ELSE (position_in_buffer + 1) % data_buffer_size,
                         n - 1, data_buffer_size)

sgpio_capture_remaining_data_for_function(s, i) ==
    LET f == s.functions[i]
        data_buffer_size == U8(Pow2(f.buffer_order))
    IN  [s EXCEPT !.functions[i].position_in_buffer =
             AdvancePosition(@, BytesToProcess(s, i), data_buffer_size)]

RECURSIVE CaptureFrom(_, _)
CaptureFrom(s, i) ==
    IF i > Len(s.functions) THEN s
    ELSE IF s.functions[i].mode \in {"STREAM_BIDIRECTIONAL", "STREAM_DATA_IN"}
    THEN CaptureFrom(sgpio_capture_remaining_data_for_function(s, i), i + 1)
    ELSE CaptureFrom(s, i + 1)

sgpio_handle_remaining_data(s) == CaptureFrom(s, 1)

\* The loop of sgpio_running over the slices, from slice i on.
RECURSIVE RunningFrom(_, _)
RunningFrom(s, i) ==
    IF i >= SGPIO_NUM_SLICES THEN FALSE
    ELSE IF i \notin s.slices_in_use THEN RunningFrom(s, i + 1)
    ELSE IF i \notin s.reg.stop_on_next_buffer_swap /\ i \in s.reg.shift_clock_enable
    THEN s.running
    ELSE IF s.reg.cycle_count[i] # 0 THEN TRUE
    ELSE RunningFrom(s, i + 1)

sgpio_running(s) == RunningFrom(s, 0)

----------------------------------------------------------------------------
(* The callers' function arrays.                                           *)

\* The most functions a caller hands to one context.
MaxFunctions == 2

\* An LPC pin the SCU table maps each SGPIO pin to: <<group, pin>>.
DefaultScuPin == << <<0, 0>>, <<0, 1>>, <<1, 15>>, <<1, 16>>, <<2, 0>>, <<2, 1>>,
                    <<2, 2>>, <<1, 0>>, <<1, 1>>, <<1, 2>>, <<1, 3>>, <<1, 4>>,
                    <<1, 18>>, <<1, 20>>, <<1, 6>>, <<1, 5>> >>

ValidPin(p) == PinConfig(p, DefaultScuPin[p + 1][1], DefaultScuPin[p + 1][2])

\* The pin configurations of a bus of n pins starting at SGPIO pin first.
PinsFrom(first, n) == [k \in 1 .. n |-> ValidPin(first + k - 1)]

\* The functions the callers choose from.
FunctionMenu == {
    \* a clock on SGPIO8 at 2 of the branch clock's 5 (divisor 2)
    sgpio_function_t(TRUE, "CLOCK_GENERATION", 1, PinsFrom(8, 1), 2, 0, 0, <<>>, 0),
    \* a 1-bit capture into 16 bytes, unlimited
    sgpio_function_t(TRUE, "STREAM_DATA_IN", 1, PinsFrom(0, 1), 0, 4, 0, <<>>, 0),
    \* a 1-bit capture of 100 shifts into 32 bytes
    sgpio_function_t(TRUE, "STREAM_DATA_IN", 1, PinsFrom(0, 1), 0, 5, 100, <<>>, 0),
    \* a 1-bit capture on SGPIO4 into 8 bytes
    sgpio_function_t(TRUE, "STREAM_DATA_IN", 1, PinsFrom(4, 1), 0, 3, 0, <<>>, 0),
    \* a 1-bit capture on SGPIO8 into 4 bytes, with a shift clock of 2 (divisor 2)
    sgpio_function_t(TRUE, "STREAM_DATA_IN", 1, PinsFrom(8, 1), 2, 2, 0, <<>>, 0),
    \* an 8-bit capture of 4 shifts on SGPIO8..15 into 4 bytes
    sgpio_function_t(TRUE, "STREAM_DATA_IN", 8, PinsFrom(8, 8), 0, 2, 4, <<>>, 0),
    \* a capture whose pin is not in the SCU table
    sgpio_function_t(TRUE, "STREAM_DATA_IN", 1, <<PinConfig(0, 5, 5)>>, 0, 2, 0, <<>>, 0),
    \* a disabled function
    sgpio_function_t(FALSE, "STREAM_DATA_IN", 1, PinsFrom(0, 1), 0, 2, 0, <<>>, 0),
    \* an 8-bit pattern of 8 bytes on SGPIO0..7
    sgpio_function_t(TRUE, "FIXED_DATA_OUT", 8, PinsFrom(0, 8), 0, 3, 0, <<>>, 0),
    \* a 1-bit pattern of 32 bytes on SGPIO0
    sgpio_function_t(TRUE, "FIXED_DATA_OUT", 1, PinsFrom(0, 1), 0, 5, 0, <<>>, 0),
    \* a 1-bit stream out of 16 bytes, unlimited
    sgpio_function_t(TRUE, "STREAM_DATA_OUT", 1, PinsFrom(0, 1), 0, 4, 0, <<>>, 0),
    \* a 4-bit stream out on SGPIO4..7 limited to 200 shifts
    sgpio_function_t(TRUE, "STREAM_DATA_OUT", 4, PinsFrom(4, 4), 0, 2, 200, <<>>, 0),
    \* a 1-bit stream out on SGPIO2 that outputs its shift clock on SGPIO8
    sgpio_function_t(TRUE, "STREAM_DATA_OUT", 1, PinsFrom(2, 1), 2, 2, 0,
                     <<ValidPin(8)>>, 0),
    \* a 1-bit bidirectional stream on SGPIO0
    sgpio_function_t(TRUE, "STREAM_BIDIRECTIONAL", 1, PinsFrom(0, 1), 0, 2, 0, <<>>, 0) }

RECURSIVE SeqsUpTo(_, _)
SeqsUpTo(S, n) ==
    IF n = 0 THEN {<<>>}
    ELSE LET shorter == SeqsUpTo(S, n - 1)
         IN  shorter \cup {Append(q, x) : q \in shorter, x \in S}

\* The function arrays of the callers.
Configurations == SeqsUpTo(FunctionMenu, MaxFunctions)

\* What an entry of function_isrs that was never written can read as.
UninitializedHandlers == {"NULL", "garbage", "sgpio_dynamic_isr"}

----------------------------------------------------------------------------
(* The clock driver (platform_clock.c): the clock generation unit (base    *)
(* clocks, integer dividers, PLLs), the clock control unit (branch clocks) *)
(* and the driver's two configuration tables.  Clock sources, base clocks  *)
(* and branch clocks are named by strings; a branch clock is located by    *)
(* its byte offset in the CCU register block, as the driver does.          *)

\* Don't try to bring up any clock more than five times.
platform_clock_max_bringup_attempts == 5

\* clock_source_t: the physical sources and the two virtual ones.
ClockSources ==
    {"32KHZ_OSCILLATOR", "INTERNAL_OSCILLATOR", "ENET_RX_CLOCK", "ENET_TX_CLOCK",
     "GP_CLOCK_INPUT", "XTAL_OSCILLATOR", "PLL0_USB", "PLL0_AUDIO", "PLL1",
     "DIVIDER_A_OUT", "DIVIDER_B_OUT", "DIVIDER_C_OUT", "DIVIDER_D_OUT",
     "DIVIDER_E_OUT"}

\* offsetof(platform_clock_control_register_block_t, <branch clock>).
CCU_OFFSET ==
    "apb3.bus" :> 256 @@ "apb3.i2c1" :> 264 @@ "apb3.dac" :> 272 @@
    "apb3.adc0" :> 280 @@ "apb3.adc1" :> 288 @@ "apb3.can0" :> 296 @@
    "apb1.bus" :> 512 @@ "apb1.motocon_pwm" :> 520 @@ "apb1.i2c0" :> 528 @@
    "apb1.i2s" :> 536 @@ "apb1.can1" :> 544 @@ "spifi" :> 768 @@
    "m4.bus" :> 1024 @@ "m4.spifi" :> 1032 @@ "m4.gpio" :> 1040 @@
    "m4.lcd" :> 1048 @@ "m4.ethernet" :> 1056 @@ "m4.usb0" :> 1064 @@
    "m4.emc" :> 1072 @@ "m4.sdio" :> 1080 @@ "m4.dma" :> 1088 @@
    "m4.core" :> 1096 @@ "m4.sct" :> 1128 @@ "m4.usb1" :> 1136 @@
    "m4.emcdiv" :> 1144 @@ "m4.flasha" :> 1152 @@ "m4.flashb" :> 1160 @@
    "m4.m0app" :> 1168 @@ "m4.adchs" :> 1176 @@ "m4.eeprom" :> 1184 @@
    "m4.wwdt" :> 1280 @@ "m4.usart0" :> 1288 @@ "m4.uart1" :> 1296 @@
    "m4.ssp0" :> 1304 @@ "m4.timer0" :> 1312 @@ "m4.timer1" :> 1320 @@
    "m4.scu" :> 1328 @@ "m4.creg" :> 1336 @@ "m4.ritimer" :> 1536 @@
    "m4.usart2" :> 1544 @@ "m4.usart3" :> 1552 @@ "m4.timer2" :> 1560 @@
    "m4.timer3" :> 1568 @@ "m4.ssp1" :> 1576 @@ "m4.qei" :> 1584 @@
    "periph.bus" :> 1792 @@ "periph.core" :> 1800 @@
    "periph.sgpio" :> 1808 @@ "usb0" :> 2048 @@ "usb1" :> 2304 @@
    "spi" :> 2560 @@ "adchs" :> 2816 @@ "audio" :> 4352 @@
    "usart3" :> 4608 @@ "usart2" :> 4864 @@ "uart1" :> 5120 @@
    "usart0" :> 5376 @@ "ssp1" :> 5632 @@ "ssp0" :> 5888 @@ "sdio" :> 6144

\* The branch clocks in the order the driver iterates over them.
all_branch_clocks ==
    << "apb3.bus", "apb3.i2c1", "apb3.dac", "apb3.adc0", "apb3.adc1",
       "apb3.can0", "apb1.bus", "apb1.motocon_pwm", "apb1.i2c0", "apb1.i2s",
       "apb1.can1", "spifi", "m4.bus", "m4.spifi", "m4.gpio", "m4.lcd",
       "m4.ethernet", "m4.usb0", "m4.emc", "m4.sdio", "m4.dma", "m4.core",
       "m4.sct", "m4.usb1", "m4.emcdiv", "m4.flasha", "m4.flashb",
       "m4.m0app", "m4.adchs", "m4.eeprom", "m4.wwdt", "m4.usart0",
       "m4.uart1", "m4.ssp0", "m4.timer0", "m4.timer1", "m4.scu", "m4.creg",
       "m4.ritimer", "m4.usart2", "m4.usart3", "m4.timer2", "m4.timer3",
       "m4.ssp1", "m4.qei", "periph.bus", "periph.core", "periph.sgpio",
       "usb0", "usb1", "spi", "adchs", "audio", "usart3", "usart2", "uart1",
       "usart0", "ssp1", "ssp0", "sdio" >>

\* One entry of clock_configs; a field the table leaves out is zero.
platform_base_clock_configuration_t(name, ccu_region_offset, ccu_region_span, source, divisor, cannot_be_configured, no_fallback) ==
    [ name |-> name, ccu_region_offset |-> ccu_region_offset,
      ccu_region_span |-> ccu_region_span, source |-> source, divisor |-> divisor,
      cannot_be_configured |-> cannot_be_configured, no_fallback |-> no_fallback ]

\* A source the table does not name is 0, which is CLOCK_SOURCE_32KHZ_OSCILLATOR.
clock_configs ==
    << platform_base_clock_configuration_t("idiva", 0, 0, "PLL0_USB", 4, FALSE, FALSE),
       platform_base_clock_configuration_t("idivb", 0, 0, "DIVIDER_A_OUT", 2, FALSE, FALSE),
       platform_base_clock_configuration_t("idivc", 0, 0, "32KHZ_OSCILLATOR", 0, FALSE, FALSE),
       platform_base_clock_configuration_t("idivd", 0, 0, "32KHZ_OSCILLATOR", 0, FALSE, FALSE),
       platform_base_clock_configuration_t("idive", 0, 0, "32KHZ_OSCILLATOR", 0, FALSE, FALSE),
       platform_base_clock_configuration_t("safe", 0, 0, "32KHZ_OSCILLATOR", 0, TRUE, FALSE),
       platform_base_clock_configuration_t("usb0", CCU_OFFSET["usb0"], 0, "PLL0_USB", 0, FALSE, TRUE),
       platform_base_clock_configuration_t("periph", CCU_OFFSET["periph.bus"], 0, "PRIMARY", 0, FALSE, FALSE),
       platform_base_clock_configuration_t("usb1", CCU_OFFSET["usb1"], 0, "DIVIDER_B_OUT", 0, FALSE, FALSE),
       platform_base_clock_configuration_t("m4", CCU_OFFSET["m4.bus"], 768, "PRIMARY", 0, FALSE, FALSE),
       platform_base_clock_configuration_t("spifi", CCU_OFFSET["spifi"], 0, "PRIMARY", 0, FALSE, FALSE),
       platform_base_clock_configuration_t("spi", CCU_OFFSET["spi"], 0, "PRIMARY", 0, FALSE, FALSE),
       platform_base_clock_configuration_t("phy_rx", 0, 0, "32KHZ_OSCILLATOR", 0, FALSE, FALSE),
       platform_base_clock_configuration_t("phy_tx", 0, 0, "32KHZ_OSCILLATOR", 0, FALSE, FALSE),
       platform_base_clock_configuration_t("apb1", CCU_OFFSET["apb1.bus"], 0, "PRIMARY", 0, FALSE, FALSE),
       platform_base_clock_configuration_t("apb3", CCU_OFFSET["apb3.bus"], 0, "PRIMARY", 0, FALSE, FALSE),
       platform_base_clock_configuration_t("lcd", 0, 0, "32KHZ_OSCILLATOR", 0, FALSE, FALSE),
       platform_base_clock_configuration_t("adchs", CCU_OFFSET["adchs"], 0, "DIVIDER_B_OUT", 0, FALSE, FALSE),
       platform_base_clock_configuration_t("sdio", CCU_OFFSET["sdio"], 0, "PRIMARY", 0, FALSE, FALSE),
       platform_base_clock_configuration_t("ssp0", CCU_OFFSET["ssp0"], 0, "PRIMARY", 0, FALSE, FALSE),
       platform_base_clock_configuration_t("ssp1", CCU_OFFSET["ssp1"], 0, "PRIMARY", 0, FALSE, FALSE),
       platform_base_clock_configuration_t("uart0", CCU_OFFSET["usart0"], 0, "PRIMARY", 0, FALSE, FALSE),
       platform_base_clock_configuration_t("uart1", CCU_OFFSET["uart1"], 0, "PRIMARY", 0, FALSE, FALSE),
       platform_base_clock_configuration_t("uart2", CCU_OFFSET["usart2"], 0, "PRIMARY", 0, FALSE, FALSE),
       platform_base_clock_configuration_t("uart3", CCU_OFFSET["usart3"], 0, "PRIMARY", 0, FALSE, FALSE),
       platform_base_clock_configuration_t("out", 0, 0, "32KHZ_OSCILLATOR", 0, FALSE, FALSE),
       platform_base_clock_configuration_t("out0", 0, 0, "32KHZ_OSCILLATOR", 0, FALSE, FALSE),
       platform_base_clock_configuration_t("out1", 0, 0, "32KHZ_OSCILLATOR", 0, FALSE, FALSE),
       platform_base_clock_configuration_t("audio", CCU_OFFSET["audio"], 0, "PRIMARY_INPUT", 0, FALSE, FALSE) >>

all_base_clocks == {clock_configs[i].name : i \in DOMAIN clock_configs}

\* The index in clock_configs of the first entry whose CCU region holds the
\* branch clock, or 0 (NULL) if no region does.
platform_find_config_for_branch_clock(clock) ==
    LET covers(config, ccu_offset) ==
            /\ config.ccu_region_offset # 0
            /\ ccu_offset >= config.ccu_region_offset
            /\ ccu_offset < config.ccu_region_offset
                               + (IF config.ccu_region_span # 0 THEN config.ccu_region_span ELSE 256)
    IN  Only({ IF found = {} THEN 0 ELSE CHOOSE i \in found : \A j \in found : i <= j
             : found \in {{i \in DOMAIN clock_configs : covers(clock_configs[i], CCU_OFFSET[clock])}} })

\* The index in clock_configs of the entry of the given base clock.
platform_find_config_for_base_clock(base) ==
    CHOOSE i \in DOMAIN clock_configs : clock_configs[i].name = base

\* The base clock that drives the given branch clock, or "NULL".
platform_get_clock_base(clock) ==
    Only({ IF config = 0 THEN "NULL" ELSE clock_configs[config].name
         : config \in {platform_find_config_for_branch_clock(clock)} })

\* The branch clock at the start of the region of the given branch clock, or
\* "NULL" if there is none or it is the given clock itself.
platform_get_bus_clock(clock) ==
    Only({ Only({ IF config = 0 \/ at_region_start = {} \/ at_region_start = {clock} THEN "NULL"
                  ELSE Only(at_region_start)
                : at_region_start \in
                      {{b \in DOMAIN CCU_OFFSET :
                           config # 0 /\ CCU_OFFSET[b] = clock_configs[config].ccu_region_offset}} })
         : config \in {platform_find_config_for_branch_clock(clock)} })

\* The base clock of every branch clock, looked up once.
base_of_branch == [clock \in DOMAIN CCU_OFFSET |-> platform_get_clock_base(clock)]

HZ == 1
KHZ == 1000
MHZ == 1000000

\* One entry of platform_clock_source_configurations.  failure_count is a
\* bool in the driver, so it holds 0 or 1.
platform_clock_source_configuration_t(frequency, frequency_actual, source, up_and_okay) ==
    [ frequency |-> frequency, frequency_actual |-> frequency_actual,
      source |-> source, up_and_okay |-> up_and_okay, failure_count |-> 0 ]

platform_clock_source_configurations ==
    [ source \in ClockSources |->
        CASE source = "32KHZ_OSCILLATOR" -> platform_clock_source_configuration_t(32 * KHZ, 0, "32KHZ_OSCILLATOR", FALSE)
          [] source = "INTERNAL_OSCILLATOR" -> platform_clock_source_configuration_t(12 * MHZ, 12 * MHZ, "32KHZ_OSCILLATOR", TRUE)
          [] source \in {"ENET_RX_CLOCK", "ENET_TX_CLOCK"} -> platform_clock_source_configuration_t(50 * MHZ, 0, "32KHZ_OSCILLATOR", FALSE)
          [] source = "XTAL_OSCILLATOR" -> platform_clock_source_configuration_t(12 * MHZ, 12 * MHZ, "32KHZ_OSCILLATOR", FALSE)
          [] source = "PLL0_USB" -> platform_clock_source_configuration_t(480 * MHZ, 0, "PRIMARY_INPUT", FALSE)
          [] source = "PLL1" -> platform_clock_source_configuration_t(204 * MHZ, 0, "PRIMARY_INPUT", FALSE)
          [] OTHER -> platform_clock_source_configuration_t(0, 0, "32KHZ_OSCILLATOR", FALSE) ]

\* The clock hardware of one board: whether a PLL that was programmed
\* reaches lock, whether the crystal oscillator ticks once enabled, and
\* whether PLL1 reports lock again after its output divider was changed.
\* Either everything works or one part fails, and then it keeps failing.
ClockHardware ==
    {hw \in [pll1_locks : BOOLEAN, usb_locks : BOOLEAN, xtal_ticks : BOOLEAN, relocks : BOOLEAN] :
        Cardinality({f \in {"pll1_locks", "usb_locks", "xtal_ticks", "relocks"} : ~hw[f]}) <= 1}

\* What one driver call has done so far, kept for the properties: the PLLs
\* it programmed although their lock had timed out more often than the
\* limit, the busy-waits whose condition never came true with the way each
\* ended, and the base and branch clocks it notified of a frequency change.
NoCall ==
    [ op |-> "none", clock |-> "none", rc |-> "OK",
      retried |-> {}, waits |-> {}, base_changes |-> {}, branch_changes |-> {},
      dependency_failed |-> FALSE ]

\* The bring-up failures the model counts per PLL stop at this number.
MaxLockTimeouts == 6

\* The clock hardware and driver data when platform_initialize_early_clocks
\* has returned: every base clock runs from the internal oscillator, every
\* branch clock runs, the PLLs and the crystal oscillator are off.
InitialClocks ==
    [ base |-> [b \in all_base_clocks |->
                  [ power_down |-> FALSE, block_during_changes |-> (b = "m4"),
                    source |-> "INTERNAL_OSCILLATOR", divisor |-> 0 ]],
      branch |-> [c \in DOMAIN CCU_OFFSET |->
                  [ enable |-> TRUE, disable_when_bus_transactions_complete |-> FALSE,
                    wake_after_powerdown |-> FALSE, divisor |-> 0 ]],
      pll1 |-> [ power_down |-> TRUE, source |-> "INTERNAL_OSCILLATOR",
                 feedback_divisor_M |-> 0, input_divisor_N |-> 0,
                 bypass_output_divider |-> FALSE, output_divisor_P |-> 0 ],
      pll_usb |-> [ powered_down |-> TRUE, bypassed |-> TRUE, clock_enable |-> FALSE,
                    source |-> "INTERNAL_OSCILLATOR", m_divider_for_mhz |-> 0 ],
      pll_audio |-> [ powered_down |-> TRUE, source |-> "INTERNAL_OSCILLATOR" ],
      xtal_control |-> [ disabled |-> TRUE, bypass |-> FALSE ],
      source_config |-> platform_clock_source_configurations,
      config_source |-> [b \in all_base_clocks |-> clock_configs[platform_find_config_for_base_clock(b)].source],
      early_init_complete |-> TRUE,
      hardware |-> [pll1_locks |-> TRUE, usb_locks |-> TRUE, xtal_ticks |-> TRUE, relocks |-> TRUE],
      initialized |-> FALSE,
      hung |-> FALSE,
      lock_timeouts |-> [p \in {"PLL1", "PLL0_USB"} |-> 0],
      call |-> NoCall ]

\* The clock state at the start of a driver call.
BeginCall(st, op, clock) ==
    [st EXCEPT !.call = [NoCall EXCEPT !.op = op, !.clock = clock]]

\* platform_determine_primary_clock_source and _input are the weak defaults.
platform_get_physical_clock_source(st, source) ==
    CASE source = "PRIMARY" -> IF st.early_init_complete THEN "PLL1" ELSE "INTERNAL_OSCILLATOR"
      [] source = "PRIMARY_INPUT" -> "XTAL_OSCILLATOR"
      [] OTHER -> source

\* The <base>_needed bit of the CCU: some branch clock of the base runs.
base_clock_needed(st, base) ==
    \E clock \in DOMAIN CCU_OFFSET : base_of_branch[clock] = base /\ st.branch[clock].enable

platform_clock_source_in_use(st, source) ==
    \/ \E clock \in DOMAIN CCU_OFFSET :
         \E base \in {base_of_branch[clock]} :
             /\ base # "NULL"
             /\ ~st.base[base].power_down
             /\ st.branch[clock].enable
             /\ st.base[base].source = source
    \/ \E base \in all_base_clocks : st.base[base].source = source /\ ~st.base[base].power_down
    \/ ~st.pll1.power_down /\ st.pll1.source = source
    \/ ~st.pll_usb.powered_down /\ st.pll_usb.source = source
    \/ ~st.pll_audio.powered_down /\ st.pll_audio.source = source

\* The integer dividers and the clock source each of them generates ("none"
\* for the other base clocks).
IntegerDividers == {"idiva", "idivb", "idivc", "idivd", "idive"}

DividerOutput(base) ==
    CASE base = "idiva" -> "DIVIDER_A_OUT" [] base = "idivb" -> "DIVIDER_B_OUT"
      [] base = "idivc" -> "DIVIDER_C_OUT" [] base = "idivd" -> "DIVIDER_D_OUT"
      [] base = "idive" -> "DIVIDER_E_OUT" [] OTHER -> "none"

\* A release test that trusts the divider outputs only and takes every other
\* configurable base clock for unused.
BaseClockInUseByDividerOutputOnly(st, base) ==
    CASE base \in IntegerDividers -> platform_clock_source_in_use(st, DividerOutput(base))
      [] base \in {"usb0", "periph", "usb1", "m4", "spifi", "spi", "apb1", "apb3", "ssp0", "ssp1", "uart0", "uart1", "uart2", "uart3"} -> FALSE
      [] OTHER -> TRUE

platform_base_clock_in_use(st, base) ==
    CASE base \in IntegerDividers -> platform_clock_source_in_use(st, DividerOutput(base))
      [] base \in {"usb0", "periph", "usb1", "m4", "spifi", "spi", "apb1", "apb3", "ssp0", "ssp1", "uart0", "uart1", "uart2", "uart3"} -> base_clock_needed(st, base)
      [] OTHER -> TRUE

\* Includes platform_disable_base_clock.
platform_disable_base_clock_if_unused(st, base) ==
    IF platform_base_clock_in_use(st, base) THEN st
    ELSE IF clock_configs[platform_find_config_for_base_clock(base)].cannot_be_configured THEN st
    ELSE [st EXCEPT !.base[base].power_down = TRUE]

\* Includes platform_handle_branch_clock_frequency_change for every branch
\* clock of the base.
platform_handle_base_clock_frequency_change(st, clock) ==
    [st EXCEPT !.call.base_changes = @ \cup {clock},
               !.call.branch_changes = @ \cup
                   {branch \in DOMAIN CCU_OFFSET :
                       /\ base_of_branch[branch] = clock
                       /\ ~st.base[clock].power_down}]

\* The sources that are notified when the given source changes: the source
\* and, transitively, every running PLL that is fed by a notified source.
RECURSIVE SourcesNotifiedWith(_, _)
SourcesNotifiedWith(st, sources) ==
    LET more == {p \in {"PLL1", "PLL0_USB", "PLL0_AUDIO"} :
                    \/ p = "PLL1" /\ ~st.pll1.power_down /\ st.pll1.source \in sources
                    \/ p = "PLL0_USB" /\ ~st.pll_usb.powered_down /\ st.pll_usb.source \in sources
                    \/ p = "PLL0_AUDIO" /\ ~st.pll_audio.powered_down /\ st.pll_audio.source \in sources}
    IN  IF more \subseteq sources THEN sources ELSE SourcesNotifiedWith(st, sources \cup more)

platform_handle_clock_source_frequency_change(st, source) ==
    Only({ [st EXCEPT !.call.base_changes = @ \cup bases,
                      !.call.branch_changes = @ \cup
                          {branch \in DOMAIN CCU_OFFSET : base_of_branch[branch] \in bases}]
         : bases \in {{base \in all_base_clocks :
                          ~st.base[base].power_down
                          /\ st.base[base].source \in SourcesNotifiedWith(st, {source})}} })

\* A busy-wait of the driver whose condition never came true, and how it
\* ended: "timed_out" (returned ETIMEDOUT and counted a failure),
\* "abandoned" (gave up after its timeout, nothing counted) or "never".
WaitEnded(st, wait, how) == [st EXCEPT !.call.waits = @ \cup {<<wait, how>>}]

\* Includes platform_detect_clock_source_frequency and what it calls: the
\* frequency monitor first calibrates the internal oscillator against the
\* crystal, then probes and measures the source.  A measured frequency is
\* the nominal one; a source that does not tick measures 0 Hz.
platform_verify_source_frequency(st, source, hw) ==
    LET ticks(s, src) ==
            CASE src = "XTAL_OSCILLATOR" -> hw.xtal_ticks /\ ~s.xtal_control.disabled
              [] src = "PLL1" -> hw.pll1_locks
              [] src = "PLL0_USB" -> hw.usb_locks
              [] src = "INTERNAL_OSCILLATOR" -> TRUE
              [] OTHER -> FALSE
        calibrated(s) ==
            IF ticks(s, "XTAL_OSCILLATOR")
            THEN platform_handle_clock_source_frequency_change(s, "INTERNAL_OSCILLATOR")
            ELSE WaitEnded(s, "validate_clock_source_is_ticking", "abandoned")
        probed(s) ==
            IF ticks(s, source) THEN s
            ELSE WaitEnded(s, "validate_clock_source_is_ticking", "abandoned")
    IN  Only({ Only({ IF s2.source_config[source].frequency # 0 /\ ~ticks(s2, source)
                      THEN Res([s2 EXCEPT !.source_config[source].frequency_actual = 0,
                                          !.source_config[source].up_and_okay = FALSE], "EIO")
                      ELSE Res([s2 EXCEPT !.source_config[source].frequency_actual =
                                              s2.source_config[source].frequency,
                                          !.source_config[source].up_and_okay = TRUE], "OK")
                    : s2 \in {probed(s1)} })
             : s1 \in {IF source = "INTERNAL_OSCILLATOR" THEN st ELSE calibrated(st)} })

platform_ensure_main_xtal_is_up(st, hw) ==
    IF st.source_config["XTAL_OSCILLATOR"].up_and_okay THEN Res(st, "OK")
    ELSE platform_verify_source_frequency(
             [st EXCEPT !.xtal_control = [disabled |-> FALSE, bypass |-> FALSE]],
             "XTAL_OSCILLATOR", hw)

\* The PLL1 dividers for a target and an input frequency, or "EIO".
platform_configure_main_pll_parameters(pll1, target_frequency, input_frequency) ==
    LET RECURSIVE divided_input(_, _)
        divided_input(divisor, frequency) ==
            IF frequency > 25 * MHZ THEN divided_input(divisor + 1, frequency \div 2)
            ELSE <<divisor, frequency>>
        RECURSIVE doubled_target(_, _)
        doubled_target(divisor, frequency) ==
            IF frequency < 156 * MHZ THEN doubled_target(divisor + 1, frequency * 2)
            ELSE <<divisor, frequency>>
        input == divided_input(1, input_frequency)
        target == doubled_target(0, target_frequency)
        multiplier == (target[2] + (input[2] \div 2)) \div input[2]
    IN  IF input[1] > 3 THEN Res(pll1, "EIO")
        ELSE Res([pll1 EXCEPT !.feedback_divisor_M = U8(multiplier - 1),
                              !.input_divisor_N = (input[1] - 1) % 4,
                              !.output_divisor_P = IF target[1] # 0 THEN (target[1] - 1) % 4 ELSE @,
                              !.bypass_output_divider = (target[1] = 0)], "OK")

RECURSIVE platform_handle_dependencies_for_clock_source(_, _, _)

\* Includes set_source_for_generated_clock(CLOCK_SOURCE_PLL1).
platform_bring_up_main_pll(st, frequency, hw) ==
    LET config == st.source_config["PLL1"]
        parent_clock == platform_get_physical_clock_source(st, config.source)
        begun == [st EXCEPT !.source_config["PLL1"].up_and_okay = FALSE,
                            !.source_config["PLL1"].frequency = frequency,
                            !.call.retried = IF st.lock_timeouts["PLL1"] > platform_clock_max_bringup_attempts
                                             THEN @ \cup {"PLL1"} ELSE @]
        with_source(r) ==
            IF r.rc # "OK"
            THEN [r.s EXCEPT !.source_config["PLL1"].source = "INTERNAL_OSCILLATOR",
                             !.pll1.source = "INTERNAL_OSCILLATOR"]
            ELSE [r.s EXCEPT !.pll1.source = parent_clock]
        input_frequency(s) ==
            IF s.source_config[parent_clock].frequency # 0
            THEN s.source_config[parent_clock].frequency
            ELSE s.source_config[s.pll1.source].frequency_actual
        locked(s) ==
            Only({ IF v.rc # "OK" THEN v
                   ELSE Res(platform_handle_clock_source_frequency_change(v.s, "PLL1"), "OK")
                 : v \in {platform_verify_source_frequency(s, "PLL1", hw)} })
        timed_out(s) ==
            Res(WaitEnded([s EXCEPT !.source_config["PLL1"].failure_count = 1,
                                    !.lock_timeouts["PLL1"] = IF @ < MaxLockTimeouts THEN @ + 1 ELSE @],
                          "pll1.locked", "timed_out"), "ETIMEDOUT")
    IN  IF config.frequency = frequency /\ config.up_and_okay THEN Res(st, "OK")
        ELSE IF config.failure_count > platform_clock_max_bringup_attempts THEN Res(st, "ETIMEDOUT")
        ELSE IF frequency > 320 * MHZ \/ frequency < 9750 * KHZ THEN Res(begun, "EINVAL")
        ELSE Only({ IF input_frequency(s) < 10 * MHZ THEN Res(s, "EIO")
                    ELSE Only({ IF p.rc # "OK" THEN Res(s, p.rc)
                                ELSE IF hw.pll1_locks THEN locked([s EXCEPT !.pll1 = p.s])
                                ELSE timed_out([s EXCEPT !.pll1 = p.s])
                              : p \in {platform_configure_main_pll_parameters(s.pll1, frequency, input_frequency(s))} })
                  : s \in {with_source(platform_handle_dependencies_for_clock_source(begun, parent_clock, hw))} })

platform_bring_up_usb_pll(st, hw) ==
    LET with_source(r) ==
            IF r.rc # "OK" THEN [r.s EXCEPT !.source_config["PLL0_USB"].source = "INTERNAL_OSCILLATOR"]
            ELSE r.s
        source_frequency(s) ==
            (s.source_config[platform_get_physical_clock_source(s, s.source_config["PLL0_USB"].source)].frequency
               + (MHZ \div 2)) \div MHZ
        programmed(s) ==
            [s EXCEPT !.pll_usb = [ powered_down |-> FALSE, bypassed |-> @.bypassed, clock_enable |-> TRUE,
                                    source |-> platform_get_physical_clock_source(s, s.source_config["PLL0_USB"].source),
                                    m_divider_for_mhz |-> source_frequency(s) ],
                      !.call.retried = IF s.lock_timeouts["PLL0_USB"] > platform_clock_max_bringup_attempts
                                       THEN @ \cup {"PLL0_USB"} ELSE @]
        timed_out(s) ==
            Res(WaitEnded([s EXCEPT !.source_config["PLL0_USB"].failure_count = 1,
                                    !.lock_timeouts["PLL0_USB"] = IF @ < MaxLockTimeouts THEN @ + 1 ELSE @],
                          "pll_usb.locked", "timed_out"), "ETIMEDOUT")
    IN  Only({ IF s.source_config["PLL0_USB"].up_and_okay THEN Res(s, "OK")
               ELSE IF s.source_config["PLL0_USB"].frequency # 480 * MHZ THEN Res(s, "EINVAL")
               ELSE Only({ IF hw.usb_locks
                           THEN platform_verify_source_frequency([p EXCEPT !.pll_usb.bypassed = FALSE], "PLL0_USB", hw)
                           ELSE timed_out(p)
                         : p \in {programmed(s)} })
             : s \in {with_source(platform_handle_dependencies_for_clock_source(
                                      st, st.source_config["PLL0_USB"].source, hw))} })

\* Includes platform_base_clock_for_divider.
platform_bring_up_clock_divider(st, source, hw) ==
    LET clock == CASE source = "DIVIDER_A_OUT" -> "idiva" [] source = "DIVIDER_B_OUT" -> "idivb"
                   [] source = "DIVIDER_C_OUT" -> "idivc" [] source = "DIVIDER_D_OUT" -> "idivd"
                   [] source = "DIVIDER_E_OUT" -> "idive"
        config == clock_configs[platform_find_config_for_base_clock(clock)]
    IN  IF st.source_config[source].up_and_okay THEN Res(st, "OK")
        ELSE Only({ IF r.rc # "OK" THEN r
                    ELSE Res([r.s EXCEPT !.base[clock] =
                                  [ power_down |-> FALSE, block_during_changes |-> FALSE,
                                    source |-> r.s.config_source[clock],
                                    divisor |-> U8(config.divisor - 1) ]], "OK")
                  : r \in {platform_handle_dependencies_for_clock_source(st, st.config_source[clock], hw)} })

\* Includes platform_ensure_rtc_xtal_is_up, platform_route_clock_input and
\* platform_bring_up_audio_pll, which are not implemented (ENOSYS).
platform_handle_dependencies_for_clock_source(st, virtual_source, hw) ==
    LET source == platform_get_physical_clock_source(st, virtual_source)
    IN  CASE source = "XTAL_OSCILLATOR" -> platform_ensure_main_xtal_is_up(st, hw)
          [] source \in {"32KHZ_OSCILLATOR", "ENET_RX_CLOCK", "ENET_TX_CLOCK", "GP_CLOCK_INPUT", "PLL0_AUDIO"} ->
                 Res(st, "ENOSYS")
          [] source \in {"DIVIDER_A_OUT", "DIVIDER_B_OUT", "DIVIDER_C_OUT", "DIVIDER_D_OUT", "DIVIDER_E_OUT"} ->
                 platform_bring_up_clock_divider(st, source, hw)
          [] source = "PLL1" -> platform_bring_up_main_pll(st, st.source_config[source].frequency, hw)
          [] source = "PLL0_USB" -> platform_bring_up_usb_pll(st, hw)
          [] source = "INTERNAL_OSCILLATOR" -> Res(st, "OK")
          [] OTHER -> Res(st, "ENODEV")

\* An enable that brings up the source of the base clock and selects it
\* but leaves the power-down bit as it finds it.
EnableBaseClockKeepingPowerDown(st, base, hw) ==
    LET config == clock_configs[platform_find_config_for_base_clock(base)]
        fallen_back(r) ==
            IF r.rc # "OK" /\ ~config.no_fallback
            THEN [r.s EXCEPT !.config_source[base] = "INTERNAL_OSCILLATOR"]
            ELSE r.s
    IN  IF config.cannot_be_configured THEN Res(st, "OK")
        ELSE Only({ Res([s EXCEPT !.base[base] =
                             [ power_down |-> @.power_down, block_during_changes |-> FALSE,
                               source |-> s.config_source[base], divisor |-> 0 ]], "OK")
                  : s \in {fallen_back(platform_handle_dependencies_for_clock_source(
                                           st, st.config_source[base], hw))} })

platform_enable_base_clock(st, base, hw) ==
    LET config == clock_configs[platform_find_config_for_base_clock(base)]
        fallen_back(r) ==
            IF r.rc # "OK" /\ ~config.no_fallback
            THEN [r.s EXCEPT !.config_source[base] = "INTERNAL_OSCILLATOR"]
            ELSE r.s
    IN  IF config.cannot_be_configured THEN Res(st, "OK")
        ELSE Only({ Res([s EXCEPT !.base[base] =
                             [ power_down |-> FALSE, block_during_changes |-> FALSE,
                               source |-> s.config_source[base], divisor |-> 0 ]], "OK")
                  : s \in {fallen_back(platform_handle_dependencies_for_clock_source(
                                           st, st.config_source[base], hw))} })

\* Includes platform_branch_clock_is_divideable.
RECURSIVE platform_enable_branch_clock(_, _, _, _)
platform_enable_branch_clock(st, clock, divide_by_two, hw) ==
    LET divideable == clock \in {"m4.emcdiv", "m4.flasha", "m4.flashb", "m4.m0app", "m4.adchs", "m4.eeprom"}
        with_base(base) == IF base # "NULL" THEN platform_enable_base_clock(st, base, hw).s ELSE st
        with_bus(s, bus) == IF bus # "NULL" THEN platform_enable_branch_clock(s, bus, FALSE, hw) ELSE s
    IN  Only({ Only({ [s2 EXCEPT !.branch[clock] =
                          [ enable |-> TRUE, disable_when_bus_transactions_complete |-> FALSE,
                            wake_after_powerdown |-> FALSE,
                            divisor |-> IF divideable THEN (IF divide_by_two THEN 1 ELSE 0) ELSE @.divisor ]]
                    : s2 \in {with_bus(s1, bus) : bus \in {platform_get_bus_clock(clock)}} })
             : s1 \in {with_base(base) : base \in {base_of_branch[clock]}} })

\* Includes platform_branch_clock_must_remain_on.
platform_disable_branch_clock(st, clock) ==
    LET released(s, base) == IF base # "NULL" THEN platform_disable_base_clock_if_unused(s, base) ELSE s
    IN  IF clock \in {"m4.bus", "m4.core"} THEN st
        ELSE Only({ released(s, base)
                  : s \in {[st EXCEPT !.branch[clock].disable_when_bus_transactions_complete = TRUE,
                                      !.branch[clock].wake_after_powerdown = TRUE,
                                      !.branch[clock].enable = FALSE]},
                    base \in {base_of_branch[clock]} })

platform_select_base_clock_source(st, clock, virtual_source, hw) ==
    LET source == platform_get_physical_clock_source(st, virtual_source)
    IN  Only({ Res(platform_handle_base_clock_frequency_change(
                       [r.s EXCEPT !.base[clock].block_during_changes = TRUE,
                                   !.base[clock].source = IF r.rc # "OK" THEN "INTERNAL_OSCILLATOR" ELSE source,
                                   !.call.dependency_failed = (r.rc # "OK")],
                       clock), r.rc)
             : r \in {platform_handle_dependencies_for_clock_source(st, source, hw)} })

\* The two waits for pll1.locked have no timeout: if PLL1 does not report
\* lock after its output divider was changed, the call never returns.
platform_soft_start_cpu_clock(st, hw) ==
    LET parent_clock == platform_get_physical_clock_source(st, st.config_source["m4"])
        source_frequency == st.source_config[parent_clock].frequency
        halved(pll1) ==
            IF pll1.bypass_output_divider
            THEN [pll1 EXCEPT !.output_divisor_P = 0, !.bypass_output_divider = FALSE]
            ELSE [pll1 EXCEPT !.output_divisor_P = (@ + 1) % 4]
        restored(pll1) ==
            IF pll1.output_divisor_P = 0
            THEN [pll1 EXCEPT !.bypass_output_divider = TRUE]
            ELSE [pll1 EXCEPT !.output_divisor_P = @ - 1]
        never(s) == [WaitEnded(s, "pll1.locked", "never") EXCEPT !.hung = TRUE]
        started(s) ==
            IF ~hw.relocks THEN never([s EXCEPT !.pll1 = halved(@)])
            ELSE Only({ platform_handle_base_clock_frequency_change([s2 EXCEPT !.pll1 = restored(@)], "m4")
                      : s2 \in {platform_handle_base_clock_frequency_change(
                                    [s EXCEPT !.pll1 = halved(@), !.base["m4"].source = parent_clock], "m4")} })
    IN  IF source_frequency < 110 * MHZ THEN st
        ELSE IF parent_clock # "PLL1" THEN st
        ELSE Only({ IF r.rc # "OK" THEN r.s ELSE started(r.s)
                  : r \in {platform_bring_up_main_pll(
                               [st EXCEPT !.base["m4"].source = "INTERNAL_OSCILLATOR"],
                               source_frequency, hw)} })

\* platform_enable_branch_clock(all_branch_clocks[i], false) for i = first,
\* ..., last, in this order.
RECURSIVE EnableBranchClocks(_, _, _, _)
EnableBranchClocks(st, first, last, hw) ==
    IF first = last THEN platform_enable_branch_clock(st, all_branch_clocks[first], FALSE, hw)
    ELSE Only({ EnableBranchClocks(s, ((first + last) \div 2) + 1, last, hw)
              : s \in {EnableBranchClocks(st, first, (first + last) \div 2, hw)} })

platform_initialize_clocks(st, hw) ==
    Only({ IF s.hung THEN s ELSE [EnableBranchClocks(s, 1, Len(all_branch_clocks), hw) EXCEPT !.initialized = TRUE]
         : s \in {platform_soft_start_cpu_clock(st, hw)} })

----------------------------------------------------------------------------
(* The ring buffer (drivers/memory/ringbuffer.c).                          *)

\* The ringbuffer_t after ringbuffer_init on a buffer of size bytes.
ringbuffer_init(size) ==
    [ buffer |-> [k \in 0 .. (size - 1) |-> 0], size |-> size,
      read_index |-> 0, write_index |-> 0 ]

\* The 64-bit difference of the indices as the uint32_t the function returns;
\* the indices of the model stay far below 2^32.
ringbuffer_data_available(r) == r.write_index - r.read_index

\* A buffer that counts as full one byte early.
FullOneByteEarly(r) == ringbuffer_data_available(r) + 1 >= r.size

ringbuffer_full(r) == ringbuffer_data_available(r) >= r.size

ringbuffer_empty(r) == ringbuffer_data_available(r) = 0

\* An enqueue that stores the element one slot late.
EnqueueOneSlotLate(r, element) ==
    IF ringbuffer_full(r) THEN [r |-> r, rc |-> "ENOMEM"]
    ELSE [r |-> [r EXCEPT !.buffer[(r.write_index + 1) % r.size] = element,
                          !.write_index = @ + 1],
          rc |-> "OK"]

ringbuffer_enqueue(r, element) ==
    IF ringbuffer_full(r) THEN [r |-> r, rc |-> "ENOMEM"]
    ELSE [r |-> [r EXCEPT !.buffer[r.write_index % r.size] = element,
                          !.write_index = @ + 1],
          rc |-> "OK"]

\* A dequeue that takes the byte and moves the index even when nothing is
\* stored.
DequeueWithoutEmptyCheck(r) ==
    IF r.size = 0 THEN [r |-> r, element |-> -1]
    ELSE [r |-> [r EXCEPT !.read_index = @ + 1],
          element |-> r.buffer[r.read_index % r.size]]

\* element is the int the function returns: -1 or the byte.
ringbuffer_dequeue(r) ==
    IF ringbuffer_empty(r) THEN [r |-> r, element |-> -1]
    ELSE [r |-> [r EXCEPT !.read_index = @ + 1],
          element |-> r.buffer[r.read_index % r.size]]

\* An overwriting enqueue that makes room by dropping the newest byte.
EnqueueOverwriteNewest(r, element) ==
    ringbuffer_enqueue(IF ringbuffer_full(r) /\ ~ringbuffer_empty(r)
                       THEN [r EXCEPT !.write_index = @ - 1] ELSE r, element)

ringbuffer_enqueue_overwrite(r, element) ==
    ringbuffer_enqueue(IF ringbuffer_full(r) THEN ringbuffer_dequeue(r).r ELSE r, element)

\* The sizes of the buffers handed to ringbuffer_init and the bytes stored.
RingSizes == {0, 1, 2}
RingBytes == {1, 2}

\* The calls the model follows after one ringbuffer_init.
MaxCalls == 5

\* The variable ring: the ring buffer and the calls since its initialisation,
\* each with its argument, its result and the buffer it was made on.
RingAfterInit(size) == [r |-> ringbuffer_init(size), calls |-> <<>>]

RingCall(op, element, result, before) ==
    [op |-> op, element |-> element, result |-> result, before |-> before]

InitialRing == RingAfterInit(2)

----------------------------------------------------------------------------
(* The reset driver (drivers/reset.c, platform_reset.c).  A 32-bit word is *)
(* the pair of its high and low 16 bits.                                   *)

RESET_REASON_UNKNOWN == <<43605, 65280>>
RESET_REASON_SOFT_RESET == <<43605, 65281>>
RESET_REASON_FAULT == <<43605, 65282>>
RESET_REASON_POWER_CYCLE == <<43605, 65283>>
RESET_REASON_WATCHDOG_TIMEOUT == <<43605, 65284>>
RESET_REASON_NEW_FIRMWARE == <<43605, 65285>>
RESET_REASON_USE_EXTCLOCK == <<43605, 52445>>
RESET_MEMORY_LIKELY_VALID_MASK == <<43605, 0>>

\* The bitwise and of two naturals.
RECURSIVE BitAnd(_, _)
BitAnd(a, b) ==
    IF a = 0 \/ b = 0 THEN 0
    ELSE (a % 2) * (b % 2) + 2 * BitAnd(a \div 2, b \div 2)

And32(x, y) == <<BitAnd(x[1], y[1]), BitAnd(x[2], y[2])>>

\* A validity test that compares the high half with the mask.
MemoryIntactByHighHalf(st) ==
    LET reset_reason_to_use == IF st.reset_reason = RESET_REASON_UNKNOWN
                               THEN st.last_reset_reason ELSE st.reset_reason
    IN  reset_reason_to_use[1] = RESET_MEMORY_LIKELY_VALID_MASK[1]

system_persistent_memory_likely_intact(st) ==
    LET reset_reason_to_use == IF st.reset_reason = RESET_REASON_UNKNOWN
                               THEN st.last_reset_reason ELSE st.reset_reason
    IN  And32(reset_reason_to_use, RESET_MEMORY_LIKELY_VALID_MASK)
            = RESET_MEMORY_LIKELY_VALID_MASK

system_reset_reason(st) ==
    IF system_persistent_memory_likely_intact(st) THEN st.last_reset_reason
    ELSE RESET_REASON_UNKNOWN

platform_reset_was_watchdog_timeout(st) ==
    IF ~st.timed_out THEN FALSE
    ELSE system_reset_reason(st) \notin {RESET_REASON_FAULT, RESET_REASON_SOFT_RESET}

reset_driver_initialize(st) ==
    LET stored == [st EXCEPT !.last_reset_reason = st.reset_reason,
                             !.reset_reason = RESET_REASON_UNKNOWN]
    IN  [stored EXCEPT
           !.last_reset_reason =
               IF ~system_persistent_memory_likely_intact(stored)
               THEN RESET_REASON_POWER_CYCLE ELSE @,
           !.timed_out = FALSE,
           !.phase = "running"]

\* The start of the image after a reset that left the given values in the
\* persistent cell and in the watchdog's time-out flag: the start-up code has
\* initialised last_reset_reason, reset_driver_initialize has not run yet.
ImageStart(cell, timed_out) ==
    [ reset_reason |-> cell, last_reset_reason |-> <<0, 0>>, timed_out |-> timed_out,
      phase |-> "preinit", cell_at_start |-> cell,
      asked |-> "none", answer |-> <<0, 0>> ]

\* system_reset: the reason is stored and the platform resets the chip, with
\* the watchdog when the always-on domain is included.
system_reset(st, reason, include_always_on_domain) ==
    ImageStart(reason, include_always_on_domain)

\* What the persistent cell can hold after power was applied.
CellsAfterPowerCycle ==
    { <<0, 0>>, <<65535, 65535>>, <<65365, 65283>>, <<43605, 4660>>,
      <<43604, 65283>>, <<21930, 65280>>,
      RESET_REASON_UNKNOWN, RESET_REASON_SOFT_RESET }

ResetReasons ==
    { RESET_REASON_UNKNOWN, RESET_REASON_SOFT_RESET, RESET_REASON_FAULT,
      RESET_REASON_POWER_CYCLE, RESET_REASON_WATCHDOG_TIMEOUT,
      RESET_REASON_NEW_FIRMWARE, RESET_REASON_USE_EXTCLOCK }

InitialReset == ImageStart(<<0, 0>>, FALSE)

----------------------------------------------------------------------------
(* The state machine.                                                      *)

\* The ISR template and vector table entry as the image is loaded.
InitialIsr ==
    [ args |-> [interrupt_clear_mask |-> {}, position_in_buffer_var |-> 0,
                position_in_buffer_mask |-> 0, copy_size |-> 0],
      body |-> <<>>, body_written_irq_enabled |-> FALSE,
      handler |-> "default_handler", installed_irq_enabled |-> FALSE ]

Init ==
    /\ sgpio \in {sgpio_t(functions) : functions \in Configurations}
    /\ nvic = [enabled |-> FALSE, pending |-> FALSE]
    /\ isr = InitialIsr
    /\ pc = "idle"
    /\ ret = [set_up_functions |-> "none", last |-> "none"]
    /\ clk = InitialClocks
    /\ ring = InitialRing
    /\ rst = InitialReset

\* The furthest position in a buffer from which the model follows a halt.
MaxPosition == 256

\* The foreground is between two driver calls.
BetweenCalls == pc \in {"idle", "halted"}

\* The level of the SGPIO interrupt line for the given registers.
InterruptLine(reg) ==
    reg.exchange_clock_interrupt.status \cap reg.exchange_clock_interrupt.enable # {}

SetUpFunctions ==
    /\ BetweenCalls
    /\ \E uninitialized \in UninitializedHandlers :
         LET r == sgpio_set_up_functions(sgpio, isr, nvic.enabled, uninitialized)
         IN  /\ sgpio' = r.s
             /\ isr' = r.tpl
             /\ ret' = [set_up_functions |-> r.rc, last |-> "set_up_functions"]
    /\ UNCHANGED <<ring, rst, clk, nvic, pc>>

\* sgpio_run, one action per register access so that the hardware and the
\* ISR can act in between.
RunDisableShiftClock ==
    /\ BetweenCalls
    /\ ret.set_up_functions = "OK"
    /\ sgpio' = [sgpio EXCEPT !.reg.shift_clock_enable = {}]
    /\ pc' = "run_prepopulate"
    /\ ret' = [ret EXCEPT !.last = "run"]
    /\ UNCHANGED <<ring, rst, clk, nvic, isr>>

RunPrepopulate ==
    /\ pc = "run_prepopulate"
    /\ sgpio' = sgpio_handle_data_prepopulation(sgpio)
    /\ pc' = "run_interrupt_mask"
    /\ UNCHANGED <<ring, rst, clk, nvic, isr, ret>>

\* The writes to the set and clear registers of the exchange clock
\* interrupt enables.
RunSetInterruptMask ==
    /\ pc = "run_interrupt_mask"
    /\ sgpio' = [sgpio EXCEPT !.reg.exchange_clock_interrupt.enable =
                    (@ \cup sgpio.swap_irqs_required)
                        \ ((0 .. 7) \ sgpio.swap_irqs_required)]
    /\ nvic' = [nvic EXCEPT !.pending = @ \/ InterruptLine(sgpio'.reg)]
    /\ pc' = "run_clear_status"
    /\ UNCHANGED <<ring, rst, clk, isr, ret>>

RunClearStatus ==
    /\ pc = "run_clear_status"
    /\ sgpio' = [sgpio EXCEPT !.reg.exchange_clock_interrupt.status = {}]
    /\ pc' = IF sgpio.swap_irqs_required # {} THEN "run_mark_serviced"
             ELSE "run_disable_interrupt"
    /\ UNCHANGED <<ring, rst, clk, nvic, isr, ret>>

\* A run that does not clear the pending bit before it enables the IRQ.
RunWithoutMarkingServiced ==
    /\ pc = "run_mark_serviced"
    /\ pc' = "run_enable_interrupt"
    /\ UNCHANGED <<ring, rst, clk, sgpio, nvic, isr, ret>>

\* platform_mark_interrupt_serviced: the pending bit is cleared, and set
\* again at once if the line is still asserted.
RunMarkServiced ==
    /\ pc = "run_mark_serviced"
    /\ nvic' = [nvic EXCEPT !.pending = InterruptLine(sgpio.reg)]
    /\ pc' = "run_enable_interrupt"
    /\ UNCHANGED <<ring, rst, clk, sgpio, isr, ret>>

RunEnableInterrupt ==
    /\ pc = "run_enable_interrupt"
    /\ nvic' = [nvic EXCEPT !.enabled = TRUE]
    /\ pc' = "run_enable_shift_clock"
    /\ UNCHANGED <<ring, rst, clk, sgpio, isr, ret>>

RunDisableInterrupt ==
    /\ pc = "run_disable_interrupt"
    /\ nvic' = [nvic EXCEPT !.enabled = FALSE]
    /\ pc' = "run_enable_shift_clock"
    /\ UNCHANGED <<ring, rst, clk, sgpio, isr, ret>>

RunEnableShiftClock ==
    /\ pc = "run_enable_shift_clock"
    /\ sgpio' = [sgpio EXCEPT !.reg.shift_clock_enable = sgpio.slices_in_use,
                              !.running = TRUE]
    /\ pc' = "idle"
    /\ UNCHANGED <<ring, rst, clk, nvic, isr, ret>>

\* sgpio_halt.
HaltDisableShiftClock ==
    /\ BetweenCalls
    /\ ret.set_up_functions = "OK"
    /\ \A i \in DOMAIN sgpio.functions :
           sgpio.functions[i].position_in_buffer <= MaxPosition
    /\ sgpio' = [sgpio EXCEPT !.reg.shift_clock_enable = {}]
    /\ pc' = "halt_interrupt_mask"
    /\ ret' = [ret EXCEPT !.last = "halt"]
    /\ UNCHANGED <<ring, rst, clk, nvic, isr>>

HaltClearInterruptMask ==
    /\ pc = "halt_interrupt_mask"
    /\ sgpio' = [sgpio EXCEPT !.reg.exchange_clock_interrupt.enable = {}]
    /\ pc' = "halt_disable_interrupt"
    /\ UNCHANGED <<ring, rst, clk, nvic, isr, ret>>

\* A halt that leaves the IRQ enabled.
HaltWithoutDisablingInterrupt ==
    /\ pc = "halt_disable_interrupt"
    /\ pc' = "halt_capture"
    /\ UNCHANGED <<ring, rst, clk, sgpio, nvic, isr, ret>>

HaltDisableInterrupt ==
    /\ pc = "halt_disable_interrupt"
    /\ nvic' = [nvic EXCEPT !.enabled = FALSE]
    /\ pc' = "halt_capture"
    /\ UNCHANGED <<ring, rst, clk, sgpio, isr, ret>>

HaltCapture ==
    /\ pc = "halt_capture"
    /\ sgpio' = [sgpio_handle_remaining_data(sgpio) EXCEPT !.running = FALSE]
    /\ pc' = "halted"
    /\ UNCHANGED <<ring, rst, clk, nvic, isr, ret>>

\* The slices of the i-th function's chains.
ChainSlices(s, i) ==
    LET f == s.functions[i]
    IN  ({sgpio_slice_in_concatenation(f.io_slice, k) :
              k \in 0 .. (Pow2(f.buffer_depth_order) - 1)}
         \cup IF f.mode = "STREAM_BIDIRECTIONAL"
              THEN {sgpio_slice_in_concatenation(f.direction_slice, k) :
                        k \in 0 .. (Pow2(f.direction_buffer_depth_order) - 1)}
              ELSE {}) \cap Slices

\* The hardware: one cycle of the SGPIO clock; every shifting slice counts.
HwCount ==
    LET shifting == sgpio.reg.shift_clock_enable
    IN  /\ \E sl \in shifting : sgpio.reg.sgpio_cycles_per_shift_clock[sl] # 0
        /\ sgpio' = [sgpio EXCEPT !.reg.cycle_count =
               [sl \in Slices |->
                   IF sl \notin shifting THEN @[sl]
                   ELSE IF @[sl] = 0 THEN sgpio.reg.sgpio_cycles_per_shift_clock[sl]
                   ELSE @[sl] - 1]]
        /\ UNCHANGED <<ring, rst, clk, nvic, isr, pc, ret>>

\* The hardware: the shifting slices of a function finish their shifts and
\* exchange data and shadow; a slice told to stop on the swap stops.
HwExchange(i) ==
    LET shifting == ChainSlices(sgpio, i) \cap sgpio.reg.shift_clock_enable
        stopping == shifting \cap sgpio.reg.stop_on_next_buffer_swap
        r == sgpio.reg
    IN  /\ shifting # {}
        /\ sgpio' = [sgpio EXCEPT
               !.reg.data = [sl \in Slices |->
                   IF sl \in shifting THEN r.data_shadow[sl] ELSE @[sl]],
               !.reg.data_shadow = [sl \in Slices |->
                   IF sl \in shifting THEN r.data[sl] ELSE @[sl]],
               !.reg.data_buffer_swap_control = [sl \in Slices |->
                   IF sl \in shifting
                   THEN [shifts_remaining |-> r.data_buffer_swap_control[sl].shifts_per_buffer_swap,
                         shifts_per_buffer_swap |->
                             r.data_buffer_swap_control[sl].shifts_per_buffer_swap]
                   ELSE @[sl]],
               !.reg.cycle_count = [sl \in Slices |->
                   IF sl \in stopping THEN 0 ELSE @[sl]],
               !.reg.shift_clock_enable = @ \ stopping,
               !.reg.exchange_clock_interrupt.status = @ \cup shifting]
        /\ nvic' = [nvic EXCEPT !.pending = @ \/ InterruptLine(sgpio'.reg)]
        /\ UNCHANGED <<ring, rst, clk, isr, pc, ret>>

\* The SGPIO interrupt is taken.  The generated ISR acknowledges the swap
\* interrupts and advances the position in the buffer of its function; any
\* other handler never returns to the foreground.
SgpioIsr ==
    /\ nvic.enabled /\ nvic.pending
    /\ pc # "fault"
    /\ IF isr.handler = "sgpio_dynamic_isr"
       THEN LET i == isr.args.position_in_buffer_var
                acknowledged == [sgpio EXCEPT !.reg.exchange_clock_interrupt.status =
                                     @ \ isr.args.interrupt_clear_mask]
            IN  /\ sgpio' = [acknowledged EXCEPT !.functions[i].position_in_buffer =
                                (@ + isr.args.copy_size)
                                    % (isr.args.position_in_buffer_mask + 1)]
                /\ nvic' = [nvic EXCEPT !.pending = InterruptLine(sgpio'.reg)]
                /\ pc' = pc
       ELSE /\ nvic' = [nvic EXCEPT !.pending = FALSE]
            /\ pc' = "fault"
            /\ sgpio' = sgpio
    /\ UNCHANGED <<ring, rst, clk, isr, ret>>

Next ==
    \/ SetUpFunctions
    \/ RunDisableShiftClock
    \/ RunPrepopulate
    \/ RunSetInterruptMask
    \/ RunClearStatus
    \/ RunMarkServiced
    \/ RunEnableInterrupt
    \/ RunDisableInterrupt
    \/ RunEnableShiftClock
    \/ HaltDisableShiftClock
    \/ HaltClearInterruptMask
    \/ HaltDisableInterrupt
    \/ HaltCapture
    \/ HwCount
    \/ \E i \in 1 .. MaxFunctions : i <= Len(sgpio.functions) /\ HwExchange(i)
    \/ SgpioIsr

Spec == Init /\ [][Next]_vars

----------------------------------------------------------------------------
(* The planner alone: sgpio_set_up_functions over a wider choice of         *)
(* function arrays, called any number of times.                            *)

PlanBusWidths == {1, 2, 3, 4, 8}
PlanFirstPins == {0, 1, 8, 12}
PlanBufferOrders == {1, 2, 4, 6}
PlanShiftLimits == {0, 4}
PlanFrequencies == {0, 3}

\* One function of every mode, bus width, first pin, buffer size, limit and
\* shift clock frequency (as fast as possible, or 3 of the branch clock's 5)
\* whose pins exist, enabled or disabled.  The caller's pin array has an entry
\* for every pin of the bus the hardware creates, so a 3-bit bus comes with
\* four entries.
PlanFunctions ==
    {sgpio_function_t(enabled, mode, bus_width,
                      PinsFrom(first, PromotedBusWidth(bus_width)), frequency,
                      buffer_order, shift_count_limit, <<>>, 0) :
         enabled \in BOOLEAN, mode \in Modes, buffer_order \in PlanBufferOrders,
         shift_count_limit \in PlanShiftLimits, frequency \in PlanFrequencies,
         <<first, bus_width>> \in
             {x \in PlanFirstPins \X PlanBusWidths :
                  x[1] + PromotedBusWidth(x[2]) <= SGPIO_NUM_PINS}}

PlanConfigurations == {<<f>> : f \in PlanFunctions} \cup Configurations

PlanInit ==
    /\ sgpio \in {sgpio_t(functions) : functions \in PlanConfigurations}
    /\ nvic = [enabled |-> FALSE, pending |-> FALSE]
    /\ isr = InitialIsr
    /\ pc = "idle"
    /\ ret = [set_up_functions |-> "none", last |-> "none"]
    /\ clk = InitialClocks
    /\ ring = InitialRing
    /\ rst = InitialReset

PlanNext == SetUpFunctions

PlanSpec == PlanInit /\ [][PlanNext]_vars

----------------------------------------------------------------------------
(* Captures that end at a shift limit: one function per context, run and    *)
(* halted any number of times.                                             *)

CaptureFunctions == {
    \* a 2-bit capture of 100 shifts on SGPIO0..1 into 256 bytes
    sgpio_function_t(TRUE, "STREAM_DATA_IN", 2, PinsFrom(0, 2), 0, 8, 100, <<>>, 0),
    \* a 2-bit capture of 100 shifts on SGPIO0..1 into 32 bytes
    sgpio_function_t(TRUE, "STREAM_DATA_IN", 2, PinsFrom(0, 2), 0, 5, 100, <<>>, 0),
    \* a 1-bit capture of 100 shifts into 1024 bytes
    sgpio_function_t(TRUE, "STREAM_DATA_IN", 1, PinsFrom(0, 1), 0, 10, 100, <<>>, 0),
    \* a 1-bit capture of 100 shifts into 16 bytes
    sgpio_function_t(TRUE, "STREAM_DATA_IN", 1, PinsFrom(0, 1), 0, 4, 100, <<>>, 0),
    \* a 1-bit capture into 16 bytes, unlimited
    sgpio_function_t(TRUE, "STREAM_DATA_IN", 1, PinsFrom(0, 1), 0, 4, 0, <<>>, 0),
    \* a 1-bit capture on SGPIO8 into 4 bytes, with a shift clock of 2 (divisor 2)
    sgpio_function_t(TRUE, "STREAM_DATA_IN", 1, PinsFrom(8, 1), 2, 2, 0, <<>>, 0),
    \* a 1-bit stream out of 16 bytes, unlimited
    sgpio_function_t(TRUE, "STREAM_DATA_OUT", 1, PinsFrom(0, 1), 0, 4, 0, <<>>, 0) }

CaptureInit ==
    /\ sgpio \in {sgpio_t(<<f>>) : f \in CaptureFunctions}
    /\ nvic = [enabled |-> FALSE, pending |-> FALSE]
    /\ isr = InitialIsr
    /\ pc = "idle"
    /\ ret = [set_up_functions |-> "none", last |-> "none"]
    /\ clk = InitialClocks
    /\ ring = InitialRing
    /\ rst = InitialReset

CaptureSpec == CaptureInit /\ [][Next]_vars

----------------------------------------------------------------------------
(* The clock driver as a state machine: the start-up code calls            *)
(* platform_initialize_clocks once; afterwards the firmware enables and    *)
(* disables branch clocks, releases base clocks and selects base clock     *)
(* sources.  The SGPIO driver stays as it is.                              *)

\* The calls of platform_enable_branch_clock: the two USB clocks (on
\* PLL0_USB, and on divider B behind divider A), a peripheral behind a bus
\* clock and a divideable clock of the M4 region.
CalledEnables ==
    {<<"usb0", FALSE>>, <<"usb1", FALSE>>, <<"periph.sgpio", FALSE>>, <<"m4.adchs", TRUE>>}

CalledBranchClocks == {call[1] : call \in CalledEnables}

\* The base clocks platform_disable_base_clock_if_unused is called with.
CalledBaseClocks == {"usb0", "usb1", "idiva", "idivb"}

\* The calls of platform_select_base_clock_source: a base clock that may
\* not fall back and one that may.
CalledSelections == {<<"usb0", "PLL0_USB">>, <<"usb1", "PLL0_USB">>}

ClockInit ==
    /\ clk \in {[InitialClocks EXCEPT !.hardware = hw] : hw \in ClockHardware}
    /\ ring = InitialRing
    /\ rst = InitialReset
    /\ sgpio = sgpio_t(<<>>)
    /\ nvic = [enabled |-> FALSE, pending |-> FALSE]
    /\ isr = InitialIsr
    /\ pc = "idle"
    /\ ret = [set_up_functions |-> "none", last |-> "none"]

InitializeClocks ==
    /\ ~clk.initialized /\ ~clk.hung
    /\ clk' = platform_initialize_clocks(BeginCall(clk, "initialize_clocks", "none"), clk.hardware)
    /\ UNCHANGED <<ring, rst, sgpio, nvic, isr, pc, ret>>

EnableBranchClock ==
    /\ clk.initialized /\ ~clk.hung
    /\ \E call \in CalledEnables :
         clk' = platform_enable_branch_clock(BeginCall(clk, "enable_branch_clock", call[1]),
                                             call[1], call[2], clk.hardware)
    /\ UNCHANGED <<ring, rst, sgpio, nvic, isr, pc, ret>>

DisableBranchClock ==
    /\ clk.initialized /\ ~clk.hung
    /\ \E clock \in CalledBranchClocks :
         clk' = platform_disable_branch_clock(BeginCall(clk, "disable_branch_clock", clock), clock)
    /\ UNCHANGED <<ring, rst, sgpio, nvic, isr, pc, ret>>

DisableBaseClockIfUnused ==
    /\ clk.initialized /\ ~clk.hung
    /\ \E base \in CalledBaseClocks :
         clk' = platform_disable_base_clock_if_unused(
                    BeginCall(clk, "disable_base_clock_if_unused", base), base)
    /\ UNCHANGED <<ring, rst, sgpio, nvic, isr, pc, ret>>

SelectBaseClockSource ==
    /\ clk.initialized /\ ~clk.hung
    /\ \E call \in CalledSelections :
         LET r == platform_select_base_clock_source(
                      BeginCall(clk, "select_base_clock_source", call[1]), call[1], call[2], clk.hardware)
         IN  clk' = [r.s EXCEPT !.call.rc = r.rc]
    /\ UNCHANGED <<ring, rst, sgpio, nvic, isr, pc, ret>>

ClockNext ==
    \/ InitializeClocks
    \/ EnableBranchClock
    \/ DisableBranchClock
    \/ DisableBaseClockIfUnused
    \/ SelectBaseClockSource

ClockSpec == ClockInit /\ [][ClockNext]_vars

----------------------------------------------------------------------------
(* The ring buffer as a state machine: a buffer is initialised and bytes   *)
(* are enqueued and dequeued.                                              *)

RingInit ==
    /\ sgpio = sgpio_t(<<>>)
    /\ nvic = [enabled |-> FALSE, pending |-> FALSE]
    /\ isr = InitialIsr
    /\ pc = "idle"
    /\ ret = [set_up_functions |-> "none", last |-> "none"]
    /\ clk = InitialClocks
    /\ ring \in {RingAfterInit(size) : size \in RingSizes}
    /\ rst = InitialReset

RingbufferInit ==
    /\ \E size \in RingSizes : ring' = RingAfterInit(size)
    /\ UNCHANGED <<rst, clk, sgpio, nvic, isr, pc, ret>>

RingbufferEnqueue ==
    /\ Len(ring.calls) < MaxCalls
    /\ \E element \in RingBytes :
          \E e \in {ringbuffer_enqueue(ring.r, element)} :
              ring' = [r |-> e.r,
                     calls |-> Append(ring.calls, RingCall("enqueue", element, e.rc, ring.r))]
    /\ UNCHANGED <<rst, clk, sgpio, nvic, isr, pc, ret>>

RingbufferEnqueueOverwrite ==
    /\ Len(ring.calls) < MaxCalls
    /\ \E element \in RingBytes :
          \E e \in {ringbuffer_enqueue_overwrite(ring.r, element)} :
              ring' = [r |-> e.r,
                     calls |-> Append(ring.calls,
                                      RingCall("enqueue_overwrite", element, e.rc, ring.r))]
    /\ UNCHANGED <<rst, clk, sgpio, nvic, isr, pc, ret>>

RingbufferDequeue ==
    /\ Len(ring.calls) < MaxCalls
    /\ \E d \in {ringbuffer_dequeue(ring.r)} :
          ring' = [r |-> d.r,
                 calls |-> Append(ring.calls, RingCall("dequeue", 0, d.element, ring.r))]
    /\ UNCHANGED <<rst, clk, sgpio, nvic, isr, pc, ret>>

RingNext ==
    \/ RingbufferInit
    \/ RingbufferEnqueue
    \/ RingbufferEnqueueOverwrite
    \/ RingbufferDequeue

RingSpec == RingInit /\ [][RingNext]_vars

----------------------------------------------------------------------------
(* The reset driver as a state machine: power is applied, the image starts *)
(* and initialises the driver, asks for the reset reason and resets the    *)
(* system.                                                                 *)

ResetInit ==
    /\ sgpio = sgpio_t(<<>>)
    /\ nvic = [enabled |-> FALSE, pending |-> FALSE]
    /\ isr = InitialIsr
    /\ pc = "idle"
    /\ ret = [set_up_functions |-> "none", last |-> "none"]
    /\ clk = InitialClocks
    /\ ring = InitialRing
    /\ rst \in {ImageStart(cell, FALSE) : cell \in CellsAfterPowerCycle}

PowerCycle ==
    /\ \E cell \in CellsAfterPowerCycle : rst' = ImageStart(cell, FALSE)
    /\ UNCHANGED <<ring, clk, sgpio, nvic, isr, pc, ret>>

ResetDriverInitialize ==
    /\ rst.phase = "preinit"
    /\ rst' = reset_driver_initialize(rst)
    /\ UNCHANGED <<ring, clk, sgpio, nvic, isr, pc, ret>>

SystemResetReason ==
    /\ rst' = [rst EXCEPT !.asked = "system_reset_reason",
                          !.answer = system_reset_reason(rst)]
    /\ UNCHANGED <<ring, clk, sgpio, nvic, isr, pc, ret>>

PlatformResetWasWatchdogTimeout ==
    /\ rst' = [rst EXCEPT !.asked = "platform_reset_was_watchdog_timeout",
                          !.answer = IF platform_reset_was_watchdog_timeout(rst)
                                     THEN <<0, 1>> ELSE <<0, 0>>]
    /\ UNCHANGED <<ring, clk, sgpio, nvic, isr, pc, ret>>

SystemReset ==
    /\ rst.phase = "running"
    /\ \E reason \in ResetReasons, include_always_on_domain \in BOOLEAN :
          rst' = system_reset(rst, reason, include_always_on_domain)
    /\ UNCHANGED <<ring, clk, sgpio, nvic, isr, pc, ret>>

ResetNext ==
    \/ PowerCycle
    \/ ResetDriverInitialize
    \/ SystemResetReason
    \/ PlatformResetWasWatchdogTimeout
    \/ SystemReset

ResetSpec == ResetInit /\ [][ResetNext]_vars

----------------------------------------------------------------------------
(* sgpio_run_blocking (sgpio.h): sgpio_run, the wait loop on sgpio_running  *)
(* and sgpio_halt, for contexts of one or two functions, most of them with  *)
(* a shift limit.  The hardware and the foreground both make progress.      *)

BlockingFunctions == {
    \* a 1-bit capture of 4 shifts on SGPIO0 into 4 bytes
    sgpio_function_t(TRUE, "STREAM_DATA_IN", 1, PinsFrom(0, 1), 0, 2, 4, <<>>, 0),
    \* a 1-bit capture of 4 shifts on SGPIO4 into 4 bytes, with a shift clock of 2
    sgpio_function_t(TRUE, "STREAM_DATA_IN", 1, PinsFrom(4, 1), 2, 2, 4, <<>>, 0),
    \* an 8-bit capture of 4 shifts on SGPIO8..15 into 4 bytes
    sgpio_function_t(TRUE, "STREAM_DATA_IN", 8, PinsFrom(8, 8), 0, 2, 4, <<>>, 0),
    \* a 1-bit pattern of 4 bytes on SGPIO1, 4 shifts of it
    sgpio_function_t(TRUE, "FIXED_DATA_OUT", 1, PinsFrom(1, 1), 0, 2, 4, <<>>, 0),
    \* a 1-bit stream out of 4 shifts on SGPIO2 that outputs its shift clock on SGPIO8
    sgpio_function_t(TRUE, "STREAM_DATA_OUT", 1, PinsFrom(2, 1), 0, 2, 4, <<ValidPin(8)>>, 0),
    \* a 1-bit capture on SGPIO0 into 16 bytes, unlimited
    sgpio_function_t(TRUE, "STREAM_DATA_IN", 1, PinsFrom(0, 1), 0, 4, 0, <<>>, 0) }

BlockingInit ==
    /\ sgpio \in {sgpio_t(functions) : functions \in SeqsUpTo(BlockingFunctions, MaxFunctions)}
    /\ nvic = [enabled |-> FALSE, pending |-> FALSE]
    /\ isr = InitialIsr
    /\ pc = "idle"
    /\ ret = [set_up_functions |-> "none", last |-> "none"]
    /\ clk = InitialClocks
    /\ ring = InitialRing
    /\ rst = InitialReset

\* sgpio_run_blocking begins: the first statement of sgpio_run.
BlockingRun ==
    /\ BetweenCalls
    /\ ret.set_up_functions = "OK"
    /\ sgpio' = [sgpio EXCEPT !.reg.shift_clock_enable = {}]
    /\ pc' = "run_prepopulate"
    /\ ret' = [ret EXCEPT !.last = "run_blocking"]
    /\ UNCHANGED <<ring, rst, clk, nvic, isr>>

\* The last statements of sgpio_run, which returns into the wait loop.
BlockingRunEnableShiftClock ==
    /\ pc = "run_enable_shift_clock"
    /\ sgpio' = [sgpio EXCEPT !.reg.shift_clock_enable = sgpio.slices_in_use,
                              !.running = TRUE]
    /\ pc' = "blocking_poll"
    /\ UNCHANGED <<ring, rst, clk, nvic, isr, ret>>

\* while(sgpio_running(sgpio)): the call and the test of what it returned.
BlockingPoll ==
    /\ pc = "blocking_poll"
    /\ pc' = IF sgpio_running(sgpio) THEN "blocking_loop" ELSE "blocking_halt"
    /\ UNCHANGED <<ring, rst, clk, sgpio, nvic, isr, ret>>

\* The branch back to the head of the loop.
BlockingLoop ==
    /\ pc = "blocking_loop"
    /\ pc' = "blocking_poll"
    /\ UNCHANGED <<ring, rst, clk, sgpio, nvic, isr, ret>>

\* The loop has ended: the first statement of sgpio_halt.
BlockingHalt ==
    /\ pc = "blocking_halt"
    /\ sgpio' = [sgpio EXCEPT !.reg.shift_clock_enable = {}]
    /\ pc' = "halt_interrupt_mask"
    /\ UNCHANGED <<ring, rst, clk, nvic, isr, ret>>

\* The statements of one call of sgpio_run_blocking after its first.
BlockingStep ==
    \/ RunPrepopulate
    \/ RunSetInterruptMask
    \/ RunClearStatus
    \/ RunMarkServiced
    \/ RunEnableInterrupt
    \/ RunDisableInterrupt
    \/ BlockingRunEnableShiftClock
    \/ BlockingPoll
    \/ BlockingLoop
    \/ BlockingHalt
    \/ HaltClearInterruptMask
    \/ HaltDisableInterrupt
    \/ HaltCapture

BlockingNext ==
    \/ SetUpFunctions
    \/ BlockingRun
    \/ BlockingStep
    \/ HwCount
    \/ \E i \in 1 .. MaxFunctions : i <= Len(sgpio.functions) /\ HwExchange(i)
    \/ SgpioIsr

\* The processor executes the call it is in, the shifting slices of every
\* function reach their swap, and a pending enabled interrupt is taken.
BlockingFairness ==
    /\ WF_vars(BlockingStep)
    /\ \A i \in 1 .. MaxFunctions : WF_vars(i <= Len(sgpio.functions) /\ HwExchange(i))
    /\ WF_vars(SgpioIsr)

BlockingSpec == BlockingInit /\ [][BlockingNext]_vars /\ BlockingFairness

----------------------------------------------------------------------------
(* The UART receive path (drivers/uart/ns16550.c): the receive interrupt    *)
(* stores each byte with ringbuffer_enqueue_overwrite and the foreground's  *)
(* uart_read takes bytes out with ringbuffer_dequeue, on the same           *)
(* rx_buffer.  The interrupt handler runs between any two statements of     *)
(* the foreground.  The n-th byte the UART receives is the byte n.          *)

\* uart->buffer_size, the bytes the model lets the UART receive and the
\* largest count passed to uart_read.
UartBufferSize == 2
MaxReceived == 4
MaxReadCount == 2

\* The variable ring under UartSpec: rx_buffer, the locals of uart_read
\* (i, count) and of ringbuffer_dequeue (element), the number of bytes
\* received, the bytes uart_read has stored in the caller's buffer, and the
\* bytes the interrupt handler dequeued to make room.
UartInit ==
    /\ sgpio \in {sgpio_t(<<>>)}
    /\ nvic = [enabled |-> FALSE, pending |-> FALSE]
    /\ isr = InitialIsr
    /\ pc = "idle"
    /\ ret = [set_up_functions |-> "none", last |-> "none"]
    /\ clk = InitialClocks
    /\ ring = [r |-> ringbuffer_init(UartBufferSize), i |-> 0, count |-> 0, element |-> -1,
               received |-> 0, returned |-> <<>>, discarded |-> {}]
    /\ rst = InitialReset

\* uart_data_ready_interrupt, taken when the UART has received a byte.
UartDataReadyInterrupt ==
    /\ ring.received < MaxReceived
    /\ \E rx_data \in {ring.received + 1} :
          ring' = [ring EXCEPT
                     !.r = ringbuffer_enqueue_overwrite(ring.r, rx_data).r,
                     !.received = rx_data,
                     !.discarded = IF ringbuffer_full(ring.r)
                                   THEN @ \cup {ringbuffer_dequeue(ring.r).element}
                                   ELSE @]
    /\ UNCHANGED <<rst, clk, sgpio, nvic, isr, pc, ret>>

\* uart_read is called with a count.
UartRead ==
    /\ pc = "idle"
    /\ \E count \in 1 .. MaxReadCount : ring' = [ring EXCEPT !.i = 0, !.count = count]
    /\ pc' = "read_loop"
    /\ UNCHANGED <<rst, clk, sgpio, nvic, isr, ret>>

\* The head of the loop of uart_read: i < count, and the break when
\* rx_buffer is empty.
UartReadLoop ==
    /\ pc = "read_loop"
    /\ pc' = IF ring.i < ring.count /\ ~ringbuffer_empty(ring.r)
             THEN "dequeue_empty" ELSE "idle"
    /\ UNCHANGED <<ring, rst, clk, sgpio, nvic, isr, ret>>

\* ringbuffer_dequeue: if (ringbuffer_empty(rb)) return -1.
UartDequeueEmpty ==
    /\ pc = "dequeue_empty"
    /\ IF ringbuffer_empty(ring.r)
       THEN ring' = [ring EXCEPT !.element = -1] /\ pc' = "read_store"
       ELSE ring' = ring /\ pc' = "dequeue_element"
    /\ UNCHANGED <<rst, clk, sgpio, nvic, isr, ret>>

\* ringbuffer_dequeue: element = rb->buffer[rb->read_index % rb->size].
UartDequeueElement ==
    /\ pc = "dequeue_element"
    /\ ring' = [ring EXCEPT !.element = ring.r.buffer[ring.r.read_index % ring.r.size]]
    /\ pc' = "dequeue_read_index"
    /\ UNCHANGED <<rst, clk, sgpio, nvic, isr, ret>>

\* ringbuffer_dequeue: rb->read_index++, and the return.
UartDequeueReadIndex ==
    /\ pc = "dequeue_read_index"
    /\ ring' = [ring EXCEPT !.r.read_index = @ + 1]
    /\ pc' = "read_store"
    /\ UNCHANGED <<rst, clk, sgpio, nvic, isr, ret>>

\* uart_read: byte_buffer[i] = the uint8_t of what the dequeue returned,
\* data_read++ and the loop's ++i.
UartReadStore ==
    /\ pc = "read_store"
    /\ ring' = [ring EXCEPT !.returned = Append(@, ring.element % 256), !.i = @ + 1]
    /\ pc' = "read_loop"
    /\ UNCHANGED <<rst, clk, sgpio, nvic, isr, ret>>

UartNext ==
    \/ UartDataReadyInterrupt
    \/ UartRead
    \/ UartReadLoop
    \/ UartDequeueEmpty
    \/ UartDequeueElement
    \/ UartDequeueReadIndex
    \/ UartReadStore

UartSpec == UartInit /\ [][UartNext]_vars

----------------------------------------------------------------------------
(* Properties.                                                             *)

\* The enabled functions of the context.
EnabledFunctions == {i \in 1 .. Len(sgpio.functions) : sgpio.functions[i].enabled}

\* The SGPIO pins the i-th function lists.
FunctionPins(i) ==
    LET f == sgpio.functions[i]
    IN  {f.pin_configurations[k].sgpio_pin : k \in DOMAIN f.pin_configurations}

\* The slices of the i-th function's data chain and of its direction chain.
IoChain(i) ==
    LET f == sgpio.functions[i]
    IN  {sgpio_slice_in_concatenation(f.io_slice, k) :
             k \in 0 .. (Pow2(f.buffer_depth_order) - 1)} \cap Slices

DirectionChain(i) ==
    LET f == sgpio.functions[i]
    IN  IF f.mode # "STREAM_BIDIRECTIONAL" THEN {}
        ELSE {sgpio_slice_in_concatenation(f.direction_slice, k) :
                  k \in 0 .. (Pow2(f.direction_buffer_depth_order) - 1)} \cap Slices

\* sgpio_set_up_functions has returned and no other call has begun since.
SetUpReturned == ret.last = "set_up_functions" /\ BetweenCalls

\* C1: in every configuration that set_up_functions accepts, each SGPIO pin
\* belongs to at most one enabled function (two enabled functions that list
\* the same pin make set_up_functions fail).
C1_PinsExclusive ==
    ret.set_up_functions = "OK" =>
        \A i, j \in EnabledFunctions :
            i # j => FunctionPins(i) \cap FunctionPins(j) = {}

\* C2: when set_up_functions succeeds, every slice is held by at most one
\* function in at most one role (I/O or chained slice, direction slice,
\* clock-generation slice).
C2_SlicesExclusive ==
    ret.set_up_functions = "OK" =>
        /\ \A i, j \in EnabledFunctions :
               i # j => (IoChain(i) \cup DirectionChain(i))
                            \cap (IoChain(j) \cup DirectionChain(j)) = {}
        /\ \A i \in EnabledFunctions : IoChain(i) \cap DirectionChain(i) = {}

\* C3: set_up_functions does not succeed when more than one enabled function
\* requires an ISR.
C3_SingleIsrFunction ==
    ret.set_up_functions = "OK" =>
        Cardinality({i \in EnabledFunctions :
                        sgpio_isr_necessary_for_function(sgpio.functions[i])}) <= 1

\* C4: the ISR template body is written, and the SGPIO handler installed in
\* the vector table, only while the SGPIO IRQ is disabled in the NVIC.
C4_TemplateWrittenWithIrqDisabled ==
    ~isr.body_written_irq_enabled /\ ~isr.installed_irq_enabled

\* The SGPIO pin is configured as an output that is always driven.
DrivenOutput(p) ==
    /\ p \in sgpio.reg.sgpio_pin_direction
    /\ sgpio.reg.output_configuration[p].pin_direction_source
           = SGPIO_USE_PIN_DIRECTION_REGISTER

\* C5: when set_up_functions returns an error, the peripheral is idle: the
\* shift clock of every slice is disabled, no SGPIO pin is configured as a
\* driven output, and no SGPIO IRQ is pending.
C5_IdleOnError ==
    (SetUpReturned /\ ret.set_up_functions # "OK") =>
        /\ sgpio.reg.shift_clock_enable = {}
        /\ \A p \in Pins : ~DrivenOutput(p)
        /\ ~nvic.pending

\* The shifts per data/shadow swap of the i-th function's chain.
ShiftsPerSwap(i) ==
    (SGPIO_BITS_PER_SLICE * Pow2(sgpio.functions[i].buffer_depth_order))
        \div sgpio.functions[i].bus_width

\* C6: when every shift_count_limit is at most the shifts per swap of its
\* function's chain, set_up_functions does not reject a limit, and on success
\* every slice of a limited function's chain has shifts_per_buffer_swap = 0,
\* shifts_remaining = limit - 1 and its stop-on-next-buffer-swap bit set.
C6_ShiftLimitApplied ==
    (/\ SetUpReturned
     /\ \A i \in 1 .. Len(sgpio.functions) :
            sgpio.functions[i].shift_count_limit <= ShiftsPerSwap(i))
    => /\ ret.set_up_functions # "ENOMEM"
       /\ ret.set_up_functions = "OK" =>
            \A i \in EnabledFunctions :
                sgpio.functions[i].shift_count_limit # 0 =>
                    \A sl \in IoChain(i) :
                        /\ sgpio.reg.data_buffer_swap_control[sl] =
                               [shifts_remaining |->
                                    sgpio.functions[i].shift_count_limit - 1,
                                shifts_per_buffer_swap |-> 0]
                        /\ sl \in sgpio.reg.stop_on_next_buffer_swap

\* Whether the i-th function needs an ISR: not for clock generation, for a
\* fixed pattern that fits in the data and shadow registers of its chain, or
\* for a capture whose shift limit fits in one span of its chain.
NeedsIsr(i) ==
    LET f == sgpio.functions[i]
        chain_length == Pow2(f.buffer_depth_order)
    IN  CASE f.mode = "CLOCK_GENERATION" -> FALSE
          [] f.mode = "FIXED_DATA_OUT" -> Pow2(f.buffer_order) > 2 * 4 * chain_length
          [] f.mode = "STREAM_DATA_IN" ->
                ~(/\ f.shift_count_limit # 0
                  /\ (f.shift_count_limit * f.bus_width) \div SGPIO_BITS_PER_SLICE
                         <= chain_length)
          [] OTHER -> TRUE

\* C7: after a successful set_up_functions, the swap_irqs_required bit of a
\* function's I/O slice is set if and only if the function needs an ISR.
C7_SwapIrqIffIsrNeeded ==
    ret.set_up_functions = "OK" =>
        \A i \in EnabledFunctions :
            (sgpio.functions[i].io_slice \in sgpio.swap_irqs_required) <=> NeedsIsr(i)

\* C8: sgpio_running returns true if and only if some used slice has its
\* shift clock enabled and either does not stop on the next buffer swap or
\* has a cycle count other than zero.
C8_RunningIffSliceShifting ==
    ret.set_up_functions # "none" =>
        (sgpio_running(sgpio) <=>
            \E sl \in sgpio.slices_in_use :
                /\ sl \in sgpio.reg.shift_clock_enable
                /\ \/ sl \notin sgpio.reg.stop_on_next_buffer_swap
                   \/ sgpio.reg.cycle_count[sl] # 0)

\* C9: when sgpio_halt has returned and until the next sgpio_run begins, the
\* shift clock of every slice is disabled, the SGPIO IRQ is disabled in the
\* NVIC (so that the ISR cannot be taken) and the running flag is false; and
\* the capture of the remaining data runs with the IRQ already disabled.
C9_HaltLeavesPeripheralStopped ==
    /\ pc = "halted" =>
          /\ sgpio.reg.shift_clock_enable = {}
          /\ ~nvic.enabled
          /\ ~sgpio.running
    /\ pc = "halt_capture" => ~nvic.enabled

\* A halt has returned while a swap interrupt of the run before it is still
\* pending.
C9_HaltedWithInterruptPending ==
    /\ pc = "halted"
    /\ ret.last = "halt"
    /\ sgpio.swap_irqs_required # {}
    /\ nvic.pending

\* The positions of sgpio_run before it enables the shift clock.
RunBeforeShiftClock ==
    {"run_prepopulate", "run_interrupt_mask", "run_clear_status", "run_mark_serviced",
     "run_enable_interrupt", "run_disable_interrupt", "run_enable_shift_clock"}

\* C10: within sgpio_run the exchange interrupt status and the pending bit
\* of the SGPIO IRQ are clear when the IRQ is enabled; the shift clock stays
\* disabled until then, and when it is enabled the buffers of the output
\* functions are prepopulated and no interrupt is pending, so an interrupt
\* left pending by an earlier run is not taken in the new one.
C10_RunClearsBeforeEnabling ==
    /\ pc \in RunBeforeShiftClock => sgpio.reg.shift_clock_enable = {}
    /\ pc \in {"run_enable_interrupt", "run_enable_shift_clock"} =>
          /\ sgpio.reg.exchange_clock_interrupt.status = {}
          /\ ~nvic.pending
    /\ pc = "run_enable_shift_clock" =>
          \A i \in 1 .. Len(sgpio.functions) :
              sgpio.functions[i].mode \in
                  {"STREAM_DATA_OUT", "FIXED_DATA_OUT", "STREAM_BIDIRECTIONAL"}
              => Len(sgpio.reg.data[sgpio.functions[i].io_slice]) > 0

\* A run is about to clear an interrupt that was left pending before it began.
C10_StalePendingInRun ==
    /\ pc = "run_mark_serviced"
    /\ nvic.pending
    /\ sgpio.reg.exchange_clock_interrupt.status = {}

LeftUnplaced(i) ==
    /\ sgpio.functions[i].mode = "STREAM_BIDIRECTIONAL"
    /\ sgpio.functions[i].direction_slice = 255

ChainDepth(i) == Pow2(sgpio.functions[i].buffer_depth_order)

\* C17: after a successful set_up_functions, for every function that
\* consumes input (STREAM_DATA_IN, STREAM_BIDIRECTIONAL) with a chain of
\* depth D > 1, the I/O slice has enable_concatenation = 0 and every other
\* slice of the chain has enable_concatenation = 1 and
\* concatenation_order = log2(D).
C17_InputBoundaryOfChain ==
    ret.set_up_functions = "OK" =>
        \A i \in EnabledFunctions :
            LET f == sgpio.functions[i]
            IN  (f.mode \in {"STREAM_DATA_IN", "STREAM_BIDIRECTIONAL"} /\ ChainDepth(i) > 1)
                => /\ ~sgpio.reg.shift_configuration[f.io_slice].enable_concatenation
                   /\ \A sl \in IoChain(i) \ {f.io_slice} :
                          /\ sgpio.reg.shift_configuration[sl].enable_concatenation
                          /\ sgpio.reg.shift_configuration[sl].concatenation_order
                                 = f.buffer_depth_order

\* C18: after a successful set_up_functions, for every function without a
\* shift limit, every slice of its chain has shifts_per_buffer_swap =
\* shifts_remaining = (32 * depth) / bus_width - 1.
C18_ShiftsPerSwapOfChain ==
    ret.set_up_functions = "OK" =>
        \A i \in EnabledFunctions :
            sgpio.functions[i].shift_count_limit = 0 =>
                \A sl \in IoChain(i) :
                    sgpio.reg.data_buffer_swap_control[sl] =
                        [shifts_remaining |-> ShiftsPerSwap(i) - 1,
                         shifts_per_buffer_swap |-> ShiftsPerSwap(i) - 1]

\* The depth of the i-th function's direction chain.
DirectionChainDepth(i) == Pow2(sgpio.functions[i].direction_buffer_depth_order)

\* The most slices a side of the i-th function may hold: 4 for a
\* bidirectional function whose I/O slice is in the high half (I..P).
MaxSlicesPerSide(i) ==
    IF /\ sgpio.functions[i].mode = "STREAM_BIDIRECTIONAL"
       /\ sgpio.functions[i].io_slice >= SGPIO_NUM_SLICES \div 2
    THEN SGPIO_MAXIMUM_SLICE_CHAIN_DEPTH \div 2
    ELSE SGPIO_MAXIMUM_SLICE_CHAIN_DEPTH

\* C19: after a successful set_up_functions a clock generator holds exactly
\* one slice, every other function at least one, a unidirectional function
\* at most 8, and a bidirectional function at most 8 per side, or 4 per side
\* when its I/O slice is in the high half; the chain depths written back obey
\* these limits, and so does slices_in_use of a context with one function.
C19_SlicesHeldPerFunction ==
    ret.set_up_functions = "OK" =>
        \A i \in EnabledFunctions :
            LET f == sgpio.functions[i]
                alone == Len(sgpio.functions) = 1
                held == Cardinality(sgpio.slices_in_use)
            IN  /\ ChainDepth(i) >= 1
                /\ alone => held >= 1
                /\ f.mode = "CLOCK_GENERATION" =>
                       /\ ChainDepth(i) = 1
                       /\ alone => held = 1
                /\ f.mode \in {"STREAM_DATA_IN", "STREAM_DATA_OUT", "FIXED_DATA_OUT"} =>
                       /\ ChainDepth(i) <= SGPIO_MAXIMUM_SLICE_CHAIN_DEPTH
                       /\ alone => held <= SGPIO_MAXIMUM_SLICE_CHAIN_DEPTH
                /\ f.mode = "STREAM_BIDIRECTIONAL" =>
                       /\ ChainDepth(i) <= MaxSlicesPerSide(i)
                       /\ DirectionChainDepth(i) <= MaxSlicesPerSide(i)
                       /\ alone => held <= 2 * MaxSlicesPerSide(i)

\* A bidirectional function on a high I/O slice was set up alone and its
\* chain stopped growing at 4 slices.
C19_BidirectionalOnHighSlice ==
    /\ ret.set_up_functions = "OK"
    /\ Len(sgpio.functions) = 1
    /\ sgpio.functions[1].mode = "STREAM_BIDIRECTIONAL"
    /\ sgpio.functions[1].io_slice >= SGPIO_NUM_SLICES \div 2
    /\ ChainDepth(1) = SGPIO_MAXIMUM_SLICE_CHAIN_DEPTH \div 2

\* The SGPIO pins that some enabled function lists or outputs its clock on.
PinsOfFunctions ==
    UNION {FunctionPins(i)
             \cup {sgpio.functions[i].shift_clock_output[k].sgpio_pin :
                      k \in DOMAIN sgpio.functions[i].shift_clock_output} :
           i \in EnabledFunctions}

\* C20: after set_up_functions, every SGPIO pin that no function uses has
\* its output bus mode set to GPIO, its direction source set to the pin
\* direction register and its direction set to input.
C20_UnusedPinsAreGpioInputs ==
    SetUpReturned =>
        \A p \in Pins \ PinsOfFunctions :
            /\ sgpio.reg.output_configuration[p].output_bus_mode = SGPIO_OUTPUT_MODE_GPIO
            /\ sgpio.reg.output_configuration[p].pin_direction_source
                   = SGPIO_USE_PIN_DIRECTION_REGISTER
            /\ p \notin sgpio.reg.sgpio_pin_direction

----------------------------------------------------------------------------
(* Properties of the clock driver.                                         *)

\* C11: a PLL whose lock wait has timed out more than
\* platform_clock_max_bringup_attempts times is refused by every later
\* bring-up request: no driver call programs it or waits for its lock again.
C11_FailedPllIsRefused ==
    clk.call.retried = {}

\* C12: every busy-wait of the clock bring-up whose condition never comes
\* true ends in its timeout, which returns ETIMEDOUT and counts a failure;
\* no call waits forever and none gives the wait up without counting it.
C12_WaitsEndInCountedTimeout ==
    /\ ~clk.hung
    /\ \A wait \in clk.call.waits : wait[2] = "timed_out"

\* C13: when platform_select_base_clock_source could not bring up the
\* dependencies of the requested source, the base clock runs from the
\* internal oscillator if its configuration allows the fallback and does
\* not run from it if the configuration has no_fallback; the base clock
\* has been notified of the frequency change.
C13_FallbackUnlessForbidden ==
    (clk.call.op = "select_base_clock_source" /\ clk.call.dependency_failed) =>
        LET base == clk.call.clock
            config == clock_configs[platform_find_config_for_base_clock(base)]
        IN  /\ config.no_fallback => clk.base[base].source # "INTERNAL_OSCILLATOR"
            /\ ~config.no_fallback => clk.base[base].source = "INTERNAL_OSCILLATOR"
            /\ base \in clk.call.base_changes

\* C14: whatever branch clocks are enabled and disabled and whatever base
\* clocks are released, a base clock that is powered down has no enabled
\* branch clock rooted on it, is the source of no running PLL and is the
\* source of no running integer divider.
C14_UsedBaseStaysPowered ==
    \A base \in all_base_clocks :
        clk.base[base].power_down =>
            /\ \A clock \in DOMAIN CCU_OFFSET :
                   base_of_branch[clock] = base => ~clk.branch[clock].enable
            /\ ~(~clk.pll1.power_down /\ clk.pll1.source = DividerOutput(base))
            /\ ~(~clk.pll_usb.powered_down /\ clk.pll_usb.source = DividerOutput(base))
            /\ ~(~clk.pll_audio.powered_down /\ clk.pll_audio.source = DividerOutput(base))
            /\ \A divider \in IntegerDividers :
                   ~(~clk.base[divider].power_down /\ clk.base[divider].source = DividerOutput(base))

\* The base clock of USB0 was powered down after its branch clock was
\* disabled, and a later release of divider A left it running because
\* divider B runs from its output.
C14_PoweredDownAndKeptBases ==
    /\ clk.call.op = "disable_base_clock_if_unused"
    /\ clk.call.clock = "idiva"
    /\ ~clk.base["idiva"].power_down
    /\ ~clk.base["idivb"].power_down
    /\ clk.base["idivb"].source = "DIVIDER_A_OUT"
    /\ clk.base["usb0"].power_down
    /\ ~clk.branch["usb0"].enable

\* The registers and the driver tables that make up the clock graph.
ClockGraph(st) ==
    [ base |-> st.base, branch |-> st.branch, pll1 |-> st.pll1, pll_usb |-> st.pll_usb,
      pll_audio |-> st.pll_audio, xtal_control |-> st.xtal_control,
      source_config |-> st.source_config, config_source |-> st.config_source ]

\* platform_enable_branch_clock leaves the branch clock enabled, its base
\* clock powered and its bus clock enabled.
EnabledWithBaseAndBus(st, clock) ==
    /\ st.branch[clock].enable
    /\ base_of_branch[clock] # "NULL" => ~st.base[base_of_branch[clock]].power_down
    /\ platform_get_bus_clock(clock) # "NULL" => st.branch[platform_get_bus_clock(clock)].enable

\* C15: from every state of the driver, platform_enable_branch_clock leaves
\* the branch clock enabled, its base clock powered up and the bus clock of
\* its region enabled, and a second call with the same arguments changes
\* nothing in the clock graph; a second platform_disable_branch_clock of
\* the same clock changes nothing either.
C15_EnableAndDisableAreIdempotent ==
    (clk.initialized /\ ~clk.hung) =>
        /\ \A call \in CalledEnables :
               \A once \in {platform_enable_branch_clock(clk, call[1], call[2], clk.hardware)} :
                   /\ EnabledWithBaseAndBus(once, call[1])
                   /\ ClockGraph(platform_enable_branch_clock(once, call[1], call[2], clk.hardware))
                          = ClockGraph(once)
        /\ \A clock \in CalledBranchClocks :
               \A once \in {platform_disable_branch_clock(clk, clock)} :
                   ClockGraph(platform_disable_branch_clock(once, clock)) = ClockGraph(once)

\* platform_enable_branch_clock(m4.adchs, true) has returned while the
\* branch clock of USB0 is off: ADCHS runs at half rate, the M4 base clock
\* and the M4 bus clock run.
C15_DividedBranchEnabled ==
    /\ clk.call.op = "enable_branch_clock"
    /\ clk.call.clock = "m4.adchs"
    /\ clk.branch["m4.adchs"].enable
    /\ clk.branch["m4.adchs"].divisor = 1
    /\ clk.branch["m4.bus"].enable
    /\ ~clk.base["m4"].power_down
    /\ ~clk.branch["usb0"].enable

----------------------------------------------------------------------------
(* Properties of repeated set-up and of buffer growth.                     *)

\* What C21 compares between two calls: the register image, the usage masks
\* and the generated ISR.
SetUpImage(r) ==
    [ reg |-> r.s.reg, slices_in_use |-> r.s.slices_in_use,
      pins_in_use |-> r.s.pins_in_use,
      swap_irqs_required |-> r.s.swap_irqs_required, isr |-> r.tpl ]

\* The result of a second sgpio_set_up_functions on what the first call left.
SetUpAgain(once, irq_enabled, uninitialized) ==
    sgpio_set_up_functions(once.s, once.tpl, irq_enabled, uninitialized)

\* C21: calling set_up_functions twice in a row on the same context (the second
\* call receiving the function records as the first call left them) produces
\* the same register image, the same slices_in_use, pins_in_use and
\* swap_irqs_required masks and the same ISR body as a single call.
C21_SetUpTwiceEqualsOnce ==
    BetweenCalls =>
        \A uninitialized \in UninitializedHandlers :
            \E once \in {sgpio_set_up_functions(sgpio, isr, nvic.enabled, uninitialized)} :
                SetUpImage(SetUpAgain(once, nvic.enabled, uninitialized)) = SetUpImage(once)


\* The depth the i-th function's data chain would have after one more doubling.
NextChainDepth(i) == 2 * ChainDepth(i)

\* A slice the next doubling of the i-th function's data chain needs is in use.
CandidateSliceUsed(i) ==
    ~sgpio_slices_for_buffer_free(sgpio, sgpio.functions[i].io_slice,
                                  ChainDepth(i), NextChainDepth(i))

\* The next doubling would pass the deepest chain of the mode or the user
\* buffer's size in slices.
DepthLimitReached(i) ==
    NextChainDepth(i) > sgpio_maximum_useful_buffer_depth_for_function(sgpio.functions[i])

\* The direction chain of a bidirectional function cannot cover the shifts of
\* the doubled data chain and cannot be doubled itself.
DirectionChainTooShort(i) ==
    /\ sgpio.functions[i].mode = "STREAM_BIDIRECTIONAL"
    /\ ~sgpio_ensure_direction_specification_is_possible(sgpio, i, NextChainDepth(i)).ok

\* C26: the iterative buffer optimization of set_up_functions terminates for
\* every array of functions, and when it stops no function can grow: a further
\* pass changes nothing, because for each function a candidate slice is
\* already used, the mode's maximum chain depth or the user buffer's size in
\* slices would be exceeded, or the direction chain cannot cover the new
\* amount of shifts.
C26_OptimizationStopsWhenNothingGrows ==
    (SetUpReturned /\ ret.set_up_functions = "OK") =>
        /\ sgpio_attempt_buffer_optimization(sgpio) = Att(sgpio, TRUE)
        /\ \A i \in DOMAIN sgpio.functions :
              \/ sgpio.functions[i].mode = "CLOCK_GENERATION"
              \/ CandidateSliceUsed(i)
              \/ DepthLimitReached(i)
              \/ DirectionChainTooShort(i)

\* Two functions were set up and the first stopped growing before its depth
\* limit because the second holds a slice its chain would need.
C26_GrowthStoppedByNeighbour ==
    /\ SetUpReturned /\ ret.set_up_functions = "OK"
    /\ Len(sgpio.functions) = 2
    /\ ChainDepth(1) > 1
    /\ CandidateSliceUsed(1) /\ ~DepthLimitReached(1)
    /\ sgpio.functions[2].io_slice \in
           {sgpio_slice_in_concatenation(sgpio.functions[1].io_slice, k) :
                k \in ChainDepth(1) .. (NextChainDepth(1) - 1)}


\* The SGPIO pin whose slice is the k-th of the i-th function's data chain.
ChainPin(i, k) == sgpio_io_pin_for_slice(sgpio.functions[i].io_slice) + k

\* C27: every slice that buffer growth adds to a chain is a valid slice with an
\* index in 0..15, reached by stepping the pin index from the function's first
\* pin; growth is refused whenever a step would pass pin 15, so a function whose
\* first pin is SGPIO12 never grows beyond 4 slices.
C27_ChainStaysWithinPins ==
    (SetUpReturned /\ ret.set_up_functions = "OK") =>
        \A i \in EnabledFunctions :
            (sgpio.functions[i].mode # "CLOCK_GENERATION" /\ ~LeftUnplaced(i)) =>
                /\ \A k \in 0 .. (ChainDepth(i) - 1) :
                      /\ ChainPin(i, k) < SGPIO_NUM_PINS
                      /\ sgpio_slice_in_concatenation(sgpio.functions[i].io_slice, k) \in Slices
                /\ sgpio.functions[i].pin_configurations[1].sgpio_pin = 12 =>
                      ChainDepth(i) <= 4


Min(a, b) == IF a < b THEN a ELSE b

\* The user buffer of the i-th function in 4-byte slices, halved for a fixed
\* pattern without a shift limit and 1 for a buffer of less than 4 bytes.
UserBufferSlices(i) ==
    LET f == sgpio.functions[i]
        S == Pow2(f.buffer_order) \div 4
    IN  IF Pow2(f.buffer_order) < 4 THEN 1
        ELSE IF f.mode = "FIXED_DATA_OUT" /\ f.shift_count_limit = 0 /\ S > 1
        THEN S \div 2
        ELSE S

\* The slices a chain of the given depth from the i-th function's I/O slice
\* consists of.
CandidateChain(i, depth) ==
    {sgpio_slice_in_concatenation(sgpio.functions[i].io_slice, k) : k \in 0 .. (depth - 1)}

\* C28: for a unidirectional data function whose candidate chain slices are
\* all free, the chain depth after optimization equals min(S, 8), where S is
\* the user buffer size in 4-byte slices, halved first for FIXED_OUT without a
\* shift limit and taken as 1 when the buffer is smaller than 4 bytes.
C28_FreeChainGrowsToTheLimit ==
    (SetUpReturned /\ ret.set_up_functions = "OK") =>
        \A i \in EnabledFunctions :
            LET limit == Min(UserBufferSlices(i), SGPIO_MAXIMUM_SLICE_CHAIN_DEPTH)
            IN  (/\ sgpio.functions[i].mode \in
                        {"STREAM_DATA_IN", "STREAM_DATA_OUT", "FIXED_DATA_OUT"}
                 /\ (CandidateChain(i, limit) \ IoChain(i)) \cap sgpio.slices_in_use = {})
                => ChainDepth(i) = limit

\* A 1-bit STREAM_IN function on SGPIO0 with a 16-byte buffer was set up next
\* to another function and holds a chain of 4 slices.
C28_SixteenBytesInFourSlices ==
    /\ SetUpReturned /\ ret.set_up_functions = "OK"
    /\ Len(sgpio.functions) = 2
    /\ \E i \in EnabledFunctions :
          /\ sgpio.functions[i].mode = "STREAM_DATA_IN"
          /\ sgpio.functions[i].bus_width = 1
          /\ sgpio.functions[i].pin_configurations[1].sgpio_pin = 0
          /\ sgpio.functions[i].buffer_order = 4
          /\ ChainDepth(i) = 4


----------------------------------------------------------------------------
(* Properties of the data shuttle.                                         *)

\* The enabled functions that scan data out and share no slice with another
\* function of the context.
OutCapable ==
    {i \in EnabledFunctions :
         /\ sgpio.functions[i].mode \in
                {"STREAM_DATA_OUT", "FIXED_DATA_OUT", "STREAM_BIDIRECTIONAL"}
         /\ \A j \in DOMAIN sgpio.functions \ {i} :
                ChainSlices(sgpio, i) \cap ChainSlices(sgpio, j) = {}}

\* The position in the i-th function's buffer, n bytes on.
PositionAfter(i, n) ==
    (sgpio.functions[i].position_in_buffer + n) % Pow2(sgpio.functions[i].buffer_order)

ResidualBytes(i) ==
    (sgpio.functions[i].shift_count_limit * sgpio.functions[i].bus_width) \div 8

\* The enabled STREAM_IN functions that have stopped at their shift limit.
StoppedAtShiftLimit ==
    {i \in EnabledFunctions :
         /\ sgpio.functions[i].mode = "STREAM_DATA_IN"
         /\ sgpio.functions[i].shift_count_limit # 0
         /\ HaltedByShiftLimit(sgpio, i)}

\* C29: when a STREAM_IN function has stopped because its shift limit L was
\* reached, halt stores floor(L * bus_width / 8) residual bytes from
\* position_in_buffer on and advances position_in_buffer by one per byte
\* modulo the buffer size, for every buffer_order.
C29_HaltAdvancesModuloBufferSize ==
    [][HaltCapture =>
          \A i \in StoppedAtShiftLimit :
              /\ sgpio'.functions[i].position_in_buffer =
                     PositionAfter(i, ResidualBytes(i))
              /\ sgpio'.functions[i].position_in_buffer <
                     Pow2(sgpio.functions[i].buffer_order)]_vars


----------------------------------------------------------------------------
(* Properties of the ring buffer.                                          *)

\* The ring buffer as the k-th call since ringbuffer_init left it.
RingAfterCall(k) ==
    IF k = Len(ring.calls) THEN ring.r ELSE ring.calls[k + 1].before

\* The bytes stored in the ring buffer r, as the difference of its indices.
Stored(r) == r.write_index - r.read_index

\* The k-th call is an enqueue that stored its byte and the next call is a
\* dequeue.
EnqueueThenDequeue(k) ==
    /\ k < Len(ring.calls)
    /\ ring.calls[k].op = "enqueue"
    /\ Stored(ring.calls[k].before) < ring.calls[k].before.size
    /\ ring.calls[k + 1].op = "dequeue"

\* C22: for a ring buffer that is not full, enqueue(x) immediately followed by
\* dequeue() returns x.
C22_DequeueReturnsTheByteJustEnqueued ==
    \A k \in DOMAIN ring.calls :
        EnqueueThenDequeue(k) => ring.calls[k + 1].result = ring.calls[k].element

\* C22, amended: for an empty ring buffer, enqueue(x) immediately followed by
\* dequeue() returns x; for a ring buffer that holds bytes and is not full,
\* dequeue() after enqueue(x) returns the oldest byte stored, the one at
\* read_index.
C22_DequeueReturnsTheOldestByte ==
    \A k \in DOMAIN ring.calls :
        EnqueueThenDequeue(k) =>
            \E before \in {ring.calls[k].before} :
                ring.calls[k + 1].result =
                    IF Stored(before) = 0 THEN ring.calls[k].element
                    ELSE before.buffer[before.read_index % before.size]

\* A byte was enqueued behind another one and the dequeue that followed
\* returned the older byte.
C22_OlderByteCameOut ==
    \E k \in DOMAIN ring.calls :
        /\ EnqueueThenDequeue(k)
        /\ Stored(ring.calls[k].before) > 0
        /\ ring.calls[k + 1].result # ring.calls[k].element
        /\ ring.calls[k + 1].result \in RingBytes

\* C23: a ring buffer is full if and only if write_index - read_index >= size;
\* enqueue fails exactly on a full buffer and then changes neither the indices
\* nor the stored bytes; dequeue on an empty buffer returns -1 and changes
\* neither index.
C23_FullAndEmptyCallsChangeNothing ==
    \A k \in DOMAIN ring.calls :
        \E call \in {ring.calls[k]} :
            /\ ringbuffer_full(call.before) <=> Stored(call.before) >= call.before.size
            /\ call.op = "enqueue" =>
                  /\ call.result # "OK" <=> Stored(call.before) >= call.before.size
                  /\ call.result # "OK" => RingAfterCall(k) = call.before
            /\ (call.op = "dequeue" /\ Stored(call.before) = 0) =>
                  /\ call.result = -1
                  /\ RingAfterCall(k).read_index = call.before.read_index
                  /\ RingAfterCall(k).write_index = call.before.write_index

\* An enqueue on a full buffer of two bytes has failed and a dequeue on an
\* empty buffer has returned -1.
C23_RefusedOnFullAndOnEmpty ==
    /\ \E k \in DOMAIN ring.calls :
          /\ ring.calls[k].op = "enqueue"
          /\ ring.calls[k].before.size = 2
          /\ Stored(ring.calls[k].before) = 2
          /\ ring.calls[k].result = "ENOMEM"
    /\ \E k \in DOMAIN ring.calls :
          /\ ring.calls[k].op = "dequeue"
          /\ ring.calls[k].result = -1

\* The calls since ringbuffer_init are K calls of enqueue followed by K calls
\* of dequeue.
EnqueuesThenDequeues(K) ==
    /\ Len(ring.calls) = 2 * K
    /\ \A k \in 1 .. K : ring.calls[k].op = "enqueue"
    /\ \A k \in (K + 1) .. (2 * K) : ring.calls[k].op = "dequeue"

\* C24: starting from a freshly initialised ring buffer, after K calls of
\* enqueue followed by K calls of dequeue, for every K (including K larger than
\* the buffer size), the available count is 0.
C24_EmptyAfterAsManyDequeues ==
    \A K \in 1 .. (MaxCalls \div 2) :
        EnqueuesThenDequeues(K) => ringbuffer_data_available(ring.r) = 0

\* Two bytes were offered to a buffer of one byte and two dequeues followed.
C24_MoreCallsThanTheBufferHolds ==
    /\ EnqueuesThenDequeues(2)
    /\ ring.r.size = 1
    /\ ring.calls[2].result = "ENOMEM"
    /\ ring.calls[4].result = -1

\* The bytes stored in the ring buffer r, oldest first.
Contents(r) == [k \in 1 .. Stored(r) |-> r.buffer[(r.read_index + k - 1) % r.size]]

\* The queue q of at most size bytes after a call with the given result.
FifoStep(q, call) ==
    IF call.op = "dequeue" THEN (IF call.result = -1 THEN q ELSE Tail(q))
    ELSE IF call.result # "OK" THEN q
    ELSE IF call.op = "enqueue_overwrite" /\ Len(q) >= call.before.size
         THEN Append(Tail(q), call.element)
    ELSE Append(q, call.element)

\* The bytes a first-in, first-out queue holds after the first k calls, from
\* the arguments and the results of the calls alone.
RECURSIVE FifoAfter(_)
FifoAfter(k) == IF k = 0 THEN <<>> ELSE FifoStep(FifoAfter(k - 1), ring.calls[k])

\* A dequeue that returns a byte returns the oldest byte of the queue.
DequeueReturnsTheOldest(k) ==
    (ring.calls[k].op = "dequeue" /\ ring.calls[k].result # -1) =>
        /\ FifoAfter(k - 1) # <<>>
        /\ ring.calls[k].result = Head(FifoAfter(k - 1))

\* The calls of enqueue_overwrite on a full buffer discard the oldest byte,
\* store theirs and leave the buffer full.
OverwriteDiscardsTheOldest(k) ==
    \E call \in {ring.calls[k]} :
        (call.op = "enqueue_overwrite" /\ ringbuffer_full(call.before)) =>
            /\ call.result = "OK"
            /\ Contents(RingAfterCall(k)) = Append(Tail(Contents(call.before)), call.element)
            /\ ringbuffer_data_available(RingAfterCall(k)) = call.before.size

----------------------------------------------------------------------------
(* Properties of the reset driver.                                         *)

\* C25: after a reset, the persistent reset-reason cell is treated as valid if
\* and only if its high 16 bits equal 0xAA55: the driver then reports the
\* cell's value as the reset reason, and for every other cell value (for
\* example 0xFFFFFFFF or 0x00000000) it reports a power cycle.
C25_OnlyMarkedCellsAreValid ==
    rst.phase = "running" =>
        system_reset_reason(rst) =
            IF rst.cell_at_start[1] = RESET_MEMORY_LIKELY_VALID_MASK[1]
            THEN rst.cell_at_start
            ELSE RESET_REASON_POWER_CYCLE

----------------------------------------------------------------------------
(* Properties of the generated ISR.                                        *)

\* The slice whose shadow register the k-th pair of the i-th function's ISR
\* addresses, before the offset is cut to the 5 bits of the instruction.
PairSlice(i, k) ==
    sgpio_get_function_buffer_slice_index(sgpio.functions[i], ChainDepth(i) - k)

\* The instructions of the body that address the given base register, as the
\* set of their byte offsets.
OffsetsFrom(body, rb) ==
    {4 * body[k].offset : k \in {n \in DOMAIN body : body[n].op # "nop" /\ body[n].rb = rb}}

\* C31: for an ISR-requiring function with chain length D, the ISR body is
\* exactly D ldr/str pairs followed only by NOPs up to the end of the body; the
\* pairs use the user-buffer offsets 0, 4, ..., 4(D-1) and the shadow offsets
\* of D distinct slices that are exactly the slices of the function's chain;
\* every immediate is word-aligned with offset/4 at most 31; and the argument
\* block has copy_size = 4 * D and position_in_buffer_mask = buffer size - 1.
C31_IsrBodyCopiesTheChain ==
    (SetUpReturned /\ ret.set_up_functions = "OK") =>
        \A i \in EnabledFunctions :
            sgpio_isr_necessary_for_function(sgpio.functions[i]) =>
                \E image \in {NopFilledBody(isr.body)} :
                    /\ \A k \in 1 .. ChainDepth(i) :
                          /\ {image[2 * k - 1].op, image[2 * k].op} = {"ldr", "str"}
                          /\ image[2 * k - 1].op = "ldr"
                          /\ PairSlice(i, k) <= 31
                    /\ \A k \in (2 * ChainDepth(i) + 1) .. Len(image) : image[k].op = "nop"
                    /\ OffsetsFrom(image, "REG_USER_BUFFER_POINTER")
                           = {4 * k : k \in 0 .. (ChainDepth(i) - 1)}
                    /\ OffsetsFrom(image, "REG_SHADOW_BASE")
                           = {4 * sgpio_slice_in_concatenation(sgpio.functions[i].io_slice, k) :
                                  k \in 0 .. (ChainDepth(i) - 1)}
                    /\ Cardinality(OffsetsFrom(image, "REG_SHADOW_BASE")) = ChainDepth(i)
                    /\ OffsetsFrom(image, "REG_SHADOW_BASE") \subseteq {4 * sl : sl \in Slices}
                    /\ isr.args.copy_size = 4 * ChainDepth(i)
                    /\ isr.args.position_in_buffer_mask
                           = Pow2(sgpio.functions[i].buffer_order) - 1

----------------------------------------------------------------------------
(* Properties of the local shift clock.                                    *)

\* a / b rounded to the nearest integer, halves upwards.
RoundedQuotient(a, b) == (2 * a + b) \div (2 * b)

\* The divisor programmed for the I/O slice of the i-th function of s.
ProgrammedDivisor(s, i) ==
    s.reg.sgpio_cycles_per_shift_clock[s.functions[i].io_slice] + 1

\* The functions whose shift clock a set-up derived from the branch clock for
\* a requested frequency, as pairs of the function's number and the frequency
\* the caller passed in; before and after are the contexts around the call.
LocallyClocked(before, after) ==
    {<<i, before.functions[i].shift_clock_frequency>> :
         i \in {n \in 1 .. Len(after.functions) :
                   /\ after.functions[n].enabled
                   /\ HighNibble(before.functions[n].shift_clock_source)
                          = SGPIO_CLOCK_SOURCE_TYPE_LOCAL
                   /\ before.functions[n].shift_clock_frequency \in 1 .. SgpioBranchClock
                   /\ after.functions[n].io_slice \in Slices}}

\* C32: for a function with a LOCAL shift clock and a non-zero requested
\* frequency f not above the SGPIO branch clock C, the divisor programmed
\* (cycles_per_shift_clock + 1) equals C / f rounded to the nearest integer,
\* and C divided by that divisor is written back to shift_clock_frequency.
C32_DivisorIsRoundedQuotient ==
    [][(SetUpFunctions /\ ret'.set_up_functions = "OK") =>
           \A x \in LocallyClocked(sgpio, sgpio') :
               /\ ProgrammedDivisor(sgpio', x[1]) = RoundedQuotient(SgpioBranchClock, x[2])
               /\ sgpio'.functions[x[1]].shift_clock_frequency
                      = SgpioBranchClock \div ProgrammedDivisor(sgpio', x[1])]_vars

----------------------------------------------------------------------------
(* Properties of disabled functions.                                       *)

IsEnabled(f) == f.enabled

\* What sgpio_set_up_functions leaves when the caller's array holds the
\* enabled functions of s only.
SetUpOfEnabledOnly(s, tpl, irq_enabled) ==
    sgpio_set_up_functions([s EXCEPT !.functions = SelectSeq(@, IsEnabled)], tpl,
                           irq_enabled, "NULL")

\* C33: a function whose enabled flag is false takes part in no stage of
\* set_up_functions: the call leaves the slices_in_use and pins_in_use masks,
\* the registers and the return value it leaves without the disabled functions
\* in the array (no slice or pin is held or written on their behalf, they
\* never make the call fail), and their buffer_depth_order is unchanged.
C33_DisabledFunctionsTakeNoPart ==
    [][SetUpFunctions =>
           \E without \in {SetUpOfEnabledOnly(sgpio, isr, nvic.enabled)} :
               /\ sgpio'.slices_in_use = without.s.slices_in_use
               /\ sgpio'.pins_in_use = without.s.pins_in_use
               /\ sgpio'.reg = without.s.reg
               /\ sgpio'.scu = without.s.scu
               /\ ret'.set_up_functions = without.rc
               /\ \A i \in DOMAIN sgpio.functions :
                      ~sgpio.functions[i].enabled =>
                          sgpio'.functions[i].buffer_depth_order
                              = sgpio.functions[i].buffer_depth_order]_vars

----------------------------------------------------------------------------
(* Properties of bidirectional functions without a direction slice.        *)

\* No direction slice can be determined for the function f.
NoDirectionSlice(f) ==
    /\ f.enabled
    /\ f.mode = "STREAM_BIDIRECTIONAL"
    /\ \/ f.bus_width \notin {1, 2, 4, 8}
       \/ /\ f.bus_width = 1
          /\ f.pin_configurations[1].sgpio_pin + (SGPIO_NUM_SLICES \div 2) >= SGPIO_NUM_PINS

\* C34: when no direction slice can be determined for a BIDIRECTIONAL function
\* (bus width outside {1,2,4,8}, or a width-1 function whose mirror pin, first
\* pin + 8, lies beyond SGPIO15), set_up_functions returns a non-zero error.
C34_NoDirectionSliceIsAnError ==
    [][(SetUpFunctions /\ \E i \in DOMAIN sgpio.functions : NoDirectionSlice(sgpio.functions[i]))
           => ret'.set_up_functions # "OK"]_vars

----------------------------------------------------------------------------
(* Properties of sgpio_running between the calls.                          *)

\* C35: in every sequence that starts with a successful set_up_functions and
\* continues with any number of run and halt calls, sgpio_running returns
\* false whenever the most recent of those calls was halt, and also before the
\* first run.
C35_NotRunningAfterHaltOrBeforeRun ==
    (BetweenCalls /\ ret.set_up_functions = "OK" /\ ret.last \in {"set_up_functions", "halt"})
        => ~sgpio_running(sgpio)

----------------------------------------------------------------------------
(* Properties of sgpio_run_blocking.                                       *)

\* The slices of the i-th function: its chains and the slice that generates
\* the shift clock it outputs.
SlicesOfFunction(i) ==
    ChainSlices(sgpio, i)
        \cup IF sgpio.functions[i].shift_clock_output # <<>>
             THEN {sgpio_slice_for_clockgen(sgpio.functions[i].shift_clock_output[1].sgpio_pin)}
             ELSE {}

\* Every used slice belongs to a function with a shift limit.
EveryUsedSliceIsLimited ==
    \A sl \in sgpio.slices_in_use :
        \E i \in EnabledFunctions :
            sgpio.functions[i].shift_count_limit # 0 /\ sl \in SlicesOfFunction(i)

\* C36: for a context in which every used slice belongs to a function with a
\* shift limit, sgpio_run_blocking terminates: sgpio_running eventually
\* returns false, the wait loop exits and halt is executed.
C36_RunBlockingTerminates ==
    (pc = "blocking_poll" /\ EveryUsedSliceIsLimited) ~> (pc = "halted")

----------------------------------------------------------------------------
(* Properties of a manual halt.                                            *)

\* The i-th function has not stopped at its shift limit: it has none, or the
\* swap that stops its I/O slice has not happened (the swap reloads the count
\* of remaining shifts with the 0 the limit put in shifts_per_buffer_swap).
NotStoppedAtShiftLimit(i) ==
    \/ sgpio.functions[i].shift_count_limit = 0
    \/ Rd(sgpio.reg.data_buffer_swap_control,
          sgpio.functions[i].io_slice).shifts_remaining # 0

\* C37: when halt is called on a function that did not stop by reaching its
\* shift limit (manual halt), no residual byte is copied: the caller's buffer
\* and position_in_buffer are the same after halt as before it.
C37_ManualHaltCopiesNothing ==
    [][HaltCapture =>
          \A i \in EnabledFunctions :
              NotStoppedAtShiftLimit(i) =>
                  /\ sgpio.functions[i].mode \in {"STREAM_BIDIRECTIONAL", "STREAM_DATA_IN"}
                         => BytesToProcess(sgpio, i) = 0
                  /\ sgpio'.functions[i].position_in_buffer
                         = sgpio.functions[i].position_in_buffer]_vars

----------------------------------------------------------------------------
(* Properties of the UART receive path.                                    *)

\* The bytes uart_read has returned so far.
ReturnedBytes == {ring.returned[k] : k \in DOMAIN ring.returned}

\* The bytes still stored in rx_buffer, and the byte the dequeue in progress
\* holds.
StoredBytes ==
    {ring.r.buffer[k % ring.r.size] : k \in ring.r.read_index .. (ring.r.write_index - 1)}

BytesInHand == IF pc = "read_store" \/ pc = "dequeue_read_index" THEN {ring.element} ELSE {}

\* C38: when the receive interrupt preempts uart_read at any point between two
\* statements, every byte uart_read returns is a received byte, bytes are
\* returned in reception order and none twice, and the only received bytes
\* never returned are the oldest ones, discarded because the buffer was full.
C38_ReadReturnsWhatWasReceived ==
    /\ ReturnedBytes \subseteq 1 .. ring.received
    /\ \A j, k \in DOMAIN ring.returned : j < k => ring.returned[j] < ring.returned[k]
    /\ \A b \in 1 .. ring.received :
          b \in ReturnedBytes \cup StoredBytes \cup BytesInHand \cup ring.discarded

----------------------------------------------------------------------------
(* Properties of the frequency-change notifications.                       *)

\* The source the given generated source runs from in the state st, or
\* "none" for a source that is not generated or whose generator is off.
ParentSource(st, src) ==
    CASE src = "PLL1" -> IF st.pll1.power_down THEN "none" ELSE st.pll1.source
      [] src = "PLL0_USB" -> IF st.pll_usb.powered_down THEN "none" ELSE st.pll_usb.source
      [] src = "PLL0_AUDIO" -> IF st.pll_audio.powered_down THEN "none" ELSE st.pll_audio.source
      [] src \in {DividerOutput(d) : d \in IntegerDividers} ->
             Only({ IF st.base[d].power_down THEN "none" ELSE st.base[d].source
                  : d \in {d \in IntegerDividers : DividerOutput(d) = src} })
      [] OTHER -> "none"

\* src is the given source or is generated from it through at most hops
\* PLLs and integer dividers.
RECURSIVE DerivesFrom(_, _, _, _)
DerivesFrom(st, src, source, hops) ==
    \/ src = source
    \/ hops > 0 /\ ParentSource(st, src) # "none"
                /\ DerivesFrom(st, ParentSource(st, src), source, hops - 1)

\* The enabled branch clocks whose base clock runs from the given source or
\* from a source generated from it.
EnabledBranchesDerivedFrom(st, source) ==
    {branch \in DOMAIN CCU_OFFSET :
        /\ st.branch[branch].enable
        /\ base_of_branch[branch] # "NULL"
        /\ ~st.base[base_of_branch[branch]].power_down
        /\ DerivesFrom(st, st.base[base_of_branch[branch]].source, source, Cardinality(ClockSources))}

\* The calls of platform_handle_clock_source_frequency_change for the given
\* source return when nested at most depth deep: the call for every running
\* PLL fed by the source does.
RECURSIVE NotificationReturns(_, _, _)
NotificationReturns(st, source, depth) ==
    /\ depth > 0
    /\ \A p \in {"PLL1", "PLL0_USB", "PLL0_AUDIO"} :
           ParentSource(st, p) = source => NotificationReturns(st, p, depth - 1)

\* The branch clocks platform_handle_clock_source_frequency_change notifies
\* in the state st for the given source.
BranchesNotifiedFor(st, source) ==
    platform_handle_clock_source_frequency_change(BeginCall(st, "none", "none"), source).call.branch_changes

\* C40: when the frequency of a clock source changes, every enabled branch
\* clock whose frequency derives from that source, whether directly through
\* its base, through a PLL rooted on the source, or through an integer divider
\* (or chain of dividers) rooted on the source, receives a frequency-change
\* notification, and the recursive propagation terminates for the configured
\* clock graph.
C40_EveryDerivedBranchIsNotified ==
    (clk.initialized /\ ~clk.hung) =>
        \A source \in ClockSources :
            /\ NotificationReturns(clk, source, Cardinality(ClockSources))
            /\ EnabledBranchesDerivedFrom(clk, source) \subseteq BranchesNotifiedFor(clk, source)

============================================================================
